---- MODULE Spec2Model ----
(***************************************************************************)
(* Computrabajo job scraper: the extraction core of src/main.js (the later *)
(* revision, lines 789-1788), its request handlers, and the older actor.   *)
(*                                                                         *)
(* Strings are sequences of one-character tokens; a character outside      *)
(* ASCII is written as a named token ("NBSP", "o'", "sqrt", ...).  The JS  *)
(* null/undefined of a string-valued expression is the sequence Null.      *)
(***************************************************************************)
EXTENDS Integers, Sequences, FiniteSets, TLC

\* ------------------------------------------------------------------------
\* Values
\* ------------------------------------------------------------------------

Null == <<"null">>

Truthy(s) == s # Null /\ s # <<>>

\* JS: s || '' for a string or null s
OrEmpty(s) == IF s = Null THEN <<>> ELSE s

\* JS: v || null
OrNull(s) == IF Truthy(s) THEN s ELSE Null

\* F(v) with v bound to the value of e, computed once
With(e, F(_)) == CHOOSE r \in {F(v) : v \in {e}} : TRUE

\* the characters of an ASCII string literal
Chars(str) == [i \in 1..Len(str) |-> SubSeq(str, i, i)]

\* n copies of the character c
Rep(c, n) == [i \in 1..n |-> c]

\* the characters \s matches (the pattern class of the JS regexes)
IsSpace(c) == c \in {" ", "\n", "\t", "NBSP"}

IsDigit(c) == c \in {"0", "1", "2", "3", "4", "5", "6", "7", "8", "9"}

\* the concatenation of the strings ss[a..b]
RECURSIVE ConcatRange(_, _, _)
ConcatRange(ss, a, b) ==
    IF a > b THEN <<>>
    ELSE IF a = b THEN ss[a]
    ELSE LET m == (a + b) \div 2 IN ConcatRange(ss, a, m) \o ConcatRange(ss, m + 1, b)

Concat(ss) == LET all(v) == ConcatRange(v, 1, Len(v)) IN With(ss, all)

Least(S) == CHOOSE x \in S : \A y \in S : x <= y
Greatest(S) == CHOOSE x \in S : \A y \in S : y <= x

\* s.replace(/\s+/g, ' ')
CollapseWs(s) ==
    Concat([i \in 1..Len(s) |->
              IF ~IsSpace(s[i]) THEN <<s[i]>>
              ELSE IF i > 1 /\ IsSpace(s[i - 1]) THEN <<>> ELSE <<" ">>])

\* String.prototype.trim
Trim(s) ==
    LET ink == {i \in 1..Len(s) : ~IsSpace(s[i])}
    IN IF ink = {} THEN <<>> ELSE SubSeq(s, Least(ink), Greatest(ink))

\* (s || '').replace(/\u00A0/g, ' ').replace(/\s+/g, ' ').trim()
normText(s) == Trim(CollapseWs(OrEmpty(s)))

LowerOf(c) ==
    CASE c = "A" -> "a" [] c = "B" -> "b" [] c = "C" -> "c" [] c = "D" -> "d"
      [] c = "E" -> "e" [] c = "F" -> "f" [] c = "G" -> "g" [] c = "H" -> "h"
      [] c = "I" -> "i" [] c = "J" -> "j" [] c = "K" -> "k" [] c = "L" -> "l"
      [] c = "M" -> "m" [] c = "N" -> "n" [] c = "O" -> "o" [] c = "P" -> "p"
      [] c = "Q" -> "q" [] c = "R" -> "r" [] c = "S" -> "s" [] c = "T" -> "t"
      [] c = "U" -> "u" [] c = "V" -> "v" [] c = "W" -> "w" [] c = "X" -> "x"
      [] c = "Y" -> "y" [] c = "Z" -> "z" [] c = "O'" -> "o'"
      [] OTHER -> c

\* String.prototype.toLowerCase
toLowerCase(s) == [i \in 1..Len(s) |-> LowerOf(s[i])]

\* String.prototype.includes
Includes(s, t) ==
    \E i \in 1..(Len(s) - Len(t) + 1) : SubSeq(s, i, i + Len(t) - 1) = t

\* String.prototype.indexOf, 0-based, -1 when absent
IndexOf(s, t) ==
    IF Includes(s, t)
    THEN (CHOOSE i \in 1..(Len(s) - Len(t) + 1) :
            /\ SubSeq(s, i, i + Len(t) - 1) = t
            /\ \A j \in 1..(i - 1) : SubSeq(s, j, j + Len(t) - 1) # t) - 1
    ELSE -1

\* Array.prototype.join for an array of strings
RECURSIVE Join(_, _)
Join(ss, sep) ==
    IF ss = <<>> THEN <<>>
    ELSE IF Len(ss) = 1 THEN ss[1]
    ELSE ss[1] \o sep \o Join(Tail(ss), sep)

\* Array.prototype.filter(Boolean) on an array of strings
FilterTruthy(ss) == SelectSeq(ss, Truthy)

\* ------------------------------------------------------------------------
\* Documents: the tree cheerio gives the handlers
\* ------------------------------------------------------------------------

\* a text node
Txt(d) == [tag |-> "#text", cls |-> {}, attrs |-> {}, kids |-> <<>>, data |-> d]

\* an element: tag name, class tokens, attributes <<name, value>>, children
El(t, c, a, k) == [tag |-> t, cls |-> c, attrs |-> a, kids |-> k, data |-> <<>>]

IsElement(n) == n.tag # "#text"

\* substring relation on the attribute and class tokens the selectors test
\* (x *= y holds when <<x, y>> is listed or x = y)
SubstringPairs ==
    { <<"title_offer", "title">>, <<"box_title", "title">>,
      <<"/empresas/acme", "/empresas/">>, <<"/empresas/acme", "/empresa">>,
      <<"/login/submit", "login">>,
      <<"display:none;", "display:none">>,
      <<"/oferta-0", "/oferta-">>,
      <<"/oferta-1", "/oferta-">>, <<"/oferta-2", "/oferta-">>,
      <<"/oferta-3", "/oferta-">>, <<"?page=2", "page=">>,
      <<"https://schema.org/Organization", "Organization">>,
      <<"/trabajo-de-a/j1", "/trabajo-de-">>, <<"/trabajo-de-a/j2", "/trabajo-de-">>,
      <<"/trabajo-de-a?p=3", "/trabajo-de-">> }

HasSub(x, y) == x = y \/ <<x, y>> \in SubstringPairs

\* .text(): the concatenated data of the text nodes below n, script and style
\* contents included
RECURSIVE TextContent(_)
RECURSIVE ForestText(_)
TextContent(n) == IF n.tag = "#text" THEN n.data ELSE ForestText(n.kids)
ForestText(f) == IF f = <<>> THEN <<>> ELSE TextContent(Head(f)) \o ForestText(Tail(f))

\* a simple selector: tag ("" for any), classes, [class*=], attribute tests
\* <<name, op, value>> with op one of "=", "*=", "has", and :contains(text)
Sel(t, c, cs, a, ct) == [tag |-> t, cls |-> c, clsSub |-> cs, attrs |-> a, contains |-> ct]

STag(t) == Sel(t, {}, "", {}, Null)
SCls(c) == Sel("", c, "", {}, Null)
SClsSub(cs) == Sel("", {}, cs, {}, Null)
SAttr(a) == Sel("", {}, "", a, Null)

AttrTest(n, a) ==
    \E p \in n.attrs :
        /\ p[1] = a[1]
        /\ CASE a[2] = "=" -> p[2] = a[3]
             [] a[2] = "*=" -> HasSub(p[2], a[3])
             [] OTHER -> TRUE

MatchesSimple(n, s) ==
    /\ IsElement(n)
    /\ s.tag = "" \/ n.tag = s.tag
    /\ s.cls \subseteq n.cls
    /\ s.clsSub = "" \/ \E c \in n.cls : HasSub(c, s.clsSub)
    /\ \A a \in s.attrs : AttrTest(n, a)
    /\ s.contains = Null \/ Includes(TextContent(n), s.contains)

\* the ancestors anc (outermost first) satisfy the chain of simple selectors
RECURSIVE AncMatch(_, _)
AncMatch(chain, anc) ==
    IF chain = <<>> THEN TRUE
    ELSE \E i \in 1..Len(anc) :
            /\ MatchesSimple(anc[i], chain[Len(chain)])
            /\ AncMatch(SubSeq(chain, 1, Len(chain) - 1), SubSeq(anc, 1, i - 1))

\* a complex selector is a chain of simple selectors under the descendant
\* combinator; a selector group (comma list) is a sequence of chains
MatchesChain(n, anc, chain) ==
    /\ MatchesSimple(n, chain[Len(chain)])
    /\ AncMatch(SubSeq(chain, 1, Len(chain) - 1), anc)

MatchesGroup(n, anc, group) ==
    \E k \in 1..Len(group) : MatchesChain(n, anc, group[k])

\* the elements of a forest in document order, each with its ancestors and
\* the element siblings that follow it
RECURSIVE Walk(_, _)
Walk(f, anc) ==
    IF f = <<>> THEN <<>>
    ELSE LET n == Head(f) IN
         (IF IsElement(n)
          THEN <<[n |-> n, anc |-> anc, after |-> SelectSeq(Tail(f), IsElement)]>>
               \o Walk(n.kids, Append(anc, n))
          ELSE <<>>)
         \o Walk(Tail(f), anc)

\* the entries of Walk a selector group matches
SelectW(f, group) ==
    LET hit(p) == MatchesGroup(p.n, p.anc, group)
    IN SelectSeq(Walk(f, <<>>), hit)

\* $(selector): the matched elements in document order
Select(f, group) ==
    LET s == SelectW(f, group) IN [i \in 1..Len(s) |-> s[i].n]

\* $(el).find(selector)
Find(n, group) == Select(n.kids, group)

\* $(selector).first().text() ('' for an empty selection)
FirstText(f, group) ==
    LET s == Select(f, group) IN IF s = <<>> THEN <<>> ELSE TextContent(s[1])

\* ------------------------------------------------------------------------
\* Structured data (JSON-LD script blocks)
\* ------------------------------------------------------------------------

\* an optional number: <<>> for null/undefined, <<n>> for the number n
NoNum == <<>>
Num(n) == <<n>>

\* a JSON @type / type value: a string ('' or undefined when v is empty and
\* arr is FALSE) or an array of strings
TypeStr(t) == [arr |-> FALSE, v |-> <<t>>]
TypeArr(ts) == [arr |-> TRUE, v |-> ts]
NoType == [arr |-> FALSE, v |-> <<>>]

\* JS truthiness of such a value: any array, any non-empty string
TypeTruthy(t) == t.arr \/ t.v # <<>>

\* the value object of a baseSalary: none, a number, or a QuantitativeValue
NoValue == [k |-> "none", n |-> NoNum, minValue |-> NoNum, maxValue |-> NoNum,
            value |-> NoNum, unitText |-> Null]
NumValue(n) == [NoValue EXCEPT !.k = "num", !.n = Num(n)]
ObjValue(mn, mx, v, u) ==
    [k |-> "obj", n |-> NoNum, minValue |-> mn, maxValue |-> mx, value |-> v, unitText |-> u]

\* a baseSalary: none, a number, a string, or an object
NoSalary == [k |-> "none", n |-> NoNum, atType |-> "", currency |-> Null, unitText |-> Null,
             minValue |-> NoNum, maxValue |-> NoNum, value |-> NoValue]
NumSalary(n) == [NoSalary EXCEPT !.k = "num", !.n = Num(n)]
StrSalary == [NoSalary EXCEPT !.k = "str"]
ObjSalary(t, c, u, mn, mx, v) ==
    [k |-> "obj", n |-> NoNum, atType |-> t, currency |-> c, unitText |-> u,
     minValue |-> mn, maxValue |-> mx, value |-> v]

\* JS truthiness of a number
NumTruthy(n) == n # NoNum /\ n # Num(0)

\* the salary record normalizeSalaryFromJsonLd builds; has[f] says whether
\* the key f is on the object
NoStruct == [isNull |-> TRUE, has |-> {}, salary_currency |-> Null, salary_period |-> Null,
             salary_min |-> NoNum, salary_max |-> NoNum, salary_amount |-> NoNum]

normalizeSalaryFromJsonLd(baseSalary) ==
    IF baseSalary.k = "none" \/ (baseSalary.k = "num" /\ ~NumTruthy(baseSalary.n))
    THEN NoStruct
    ELSE
    LET isObj == baseSalary.k = "obj"
        isMonetary == isObj /\ baseSalary.atType = "MonetaryAmount"
        \* monetary ? monetary.value : baseSalary.value || baseSalary
        bv == IF isObj THEN baseSalary.value ELSE NoValue
        bvTruthy == bv.k = "obj" \/ (bv.k = "num" /\ NumTruthy(bv.n))
        self == IF isObj
                THEN ObjValue(baseSalary.minValue, baseSalary.maxValue,
                              (IF bv.k = "num" THEN bv.n ELSE NoNum), baseSalary.unitText)
                ELSE IF baseSalary.k = "num" THEN NumValue(baseSalary.n[1])
                ELSE NoValue
        value == IF isMonetary THEN bv
                 ELSE IF bvTruthy THEN bv ELSE self
        currency == IF isObj THEN OrNull(baseSalary.currency) ELSE Null
        valueIsObj == value.k = "obj"
        min == IF valueIsObj THEN value.minValue ELSE NoNum
        max == IF valueIsObj THEN value.maxValue ELSE NoNum
        amount == IF valueIsObj THEN value.value
                  ELSE IF value.k = "num" THEN value.n ELSE NoNum
        unitText == IF valueIsObj
                    THEN (IF value.unitText # Null THEN value.unitText
                          ELSE IF isObj THEN baseSalary.unitText ELSE Null)
                    ELSE Null
        has == (IF Truthy(currency) THEN {"salary_currency"} ELSE {})
               \cup (IF Truthy(unitText) THEN {"salary_period"} ELSE {})
               \cup (IF min # NoNum THEN {"salary_min"} ELSE {})
               \cup (IF max # NoNum THEN {"salary_max"} ELSE {})
               \cup (IF amount # NoNum /\ min = NoNum /\ max = NoNum
                     THEN {"salary_amount"} ELSE {})
    IN IF has = {} THEN NoStruct
       ELSE [isNull |-> FALSE, has |-> has,
             salary_currency |-> IF "salary_currency" \in has THEN currency ELSE Null,
             salary_period |-> IF "salary_period" \in has THEN unitText ELSE Null,
             salary_min |-> IF "salary_min" \in has THEN min ELSE NoNum,
             salary_max |-> IF "salary_max" \in has THEN max ELSE NoNum,
             salary_amount |-> IF "salary_amount" \in has THEN amount ELSE NoNum]

\* one postal address of a jobLocation entry (j?.address || {})
Addr(l, r, c) == [addressLocality |-> l, addressRegion |-> r, addressCountry |-> c]

\* jobLocation: absent, one object, or an array of objects
NoLoc == [k |-> "none", v |-> <<>>]
OneLoc(a) == [k |-> "obj", v |-> <<a>>]
ArrLoc(as) == [k |-> "arr", v |-> as]

\* employmentType: absent (or ''), a string, or an array of strings
NoEmp == [k |-> "none", v |-> <<>>]
StrEmp(e) == [k |-> "str", v |-> <<e>>]
ArrEmp(es) == [k |-> "arr", v |-> es]

\* one item of a parsed block; isNull is the JSON value null
BlankItem ==
    [isNull |-> FALSE, atType |-> NoType, type |-> NoType, title |-> Null, name |-> Null,
     orgName |-> Null, datePosted |-> Null, description |-> Null, jobLocation |-> NoLoc,
     baseSalary |-> NoSalary, employmentType |-> NoEmp]
NullItem == [BlankItem EXCEPT !.isNull = TRUE]

\* a script[type="application/ld+json"] element: its text is empty, does not
\* parse, or parses to the items (one object, or the entries of an array)
EmptyBlock == [kind |-> "empty", items |-> <<>>]
MalformedBlock == [kind |-> "malformed", items |-> <<>>]
JsonBlock(items) == [kind |-> "json", items |-> items]

\* const type = item['@type'] || item.type; isJob = ...
ItemType(item) == IF TypeTruthy(item.atType) THEN item.atType ELSE item.type

\* any typed item taken for a posting
IsTyped(item) == TypeTruthy(ItemType(item))

IsJob(item) ==
    LET type == ItemType(item) IN
    \E i \in 1..Len(type.v) : type.v[i] = "JobPosting"

\* the for loop over the items of one block inside the try: the items pushed
\* before the loop ends or a null item makes item['@type'] throw
RECURSIVE ScanItems(_)
ScanItems(items) ==
    IF items = <<>> THEN <<>>
    ELSE IF Head(items).isNull THEN <<>>
    ELSE (IF IsJob(Head(items)) THEN <<Head(items)>> ELSE <<>>) \o ScanItems(Tail(items))

\* blocks.each(...): what one block adds to jobPostings
ScanBlock(b) == IF b.kind = "json" THEN ScanItems(b.items) ELSE <<>>

RECURSIVE ScanBlocks(_)
ScanBlocks(blocks) ==
    IF blocks = <<>> THEN <<>> ELSE ScanBlock(Head(blocks)) \o ScanBlocks(Tail(blocks))

\* parseAllJsonLd: jobPostings[0] || null (NullItem stands for null)
parseAllJsonLd(blocks) ==
    LET jobPostings == ScanBlocks(blocks) IN
    IF jobPostings = <<>> THEN NullItem ELSE jobPostings[1]

\* [addr.addressLocality, addr.addressRegion, addr.addressCountry]
\*     .map(normText).filter(Boolean).join(', ')
AddrPiece(a) ==
    Join(FilterTruthy(<<normText(a.addressLocality), normText(a.addressRegion),
                        normText(a.addressCountry)>>), <<",", " ">>)

RECURSIVE AddrPieces(_)
AddrPieces(as) ==
    IF as = <<>> THEN <<>>
    ELSE (IF AddrPiece(Head(as)) # <<>> THEN <<AddrPiece(Head(as))>> ELSE <<>>)
         \o AddrPieces(Tail(as))

\* the {} extractFromJsonLd returns when no item matched: every property is
\* undefined
NoJsonLd ==
    [found |-> FALSE, title |-> Null, company |-> Null, datePosted |-> Null,
     description_raw |-> Null, location |-> Null, salary_struct |-> NoStruct,
     employmentType |-> [isNull |-> TRUE, v |-> <<>>]]

FirstTruthy(a, b) == IF Truthy(a) THEN a ELSE IF Truthy(b) THEN b ELSE Null

extractFromJsonLd(blocks) ==
    LET item == parseAllJsonLd(blocks) IN
    IF item.isNull THEN NoJsonLd
    ELSE
    LET jl == item.jobLocation
        location == IF jl.k = "none" THEN Null
                    ELSE OrNull(Join(AddrPieces(jl.v), <<" ", "|", " ">>))
        et == item.employmentType
        etTruthy == et.k = "arr" \/ (et.k = "str" /\ et.v[1] # <<>>)
        mapped == [i \in 1..Len(et.v) |-> normText(et.v[i])]
    IN [found |-> TRUE,
        title |-> FirstTruthy(item.title, item.name),
        company |-> OrNull(item.orgName),
        datePosted |-> OrNull(item.datePosted),
        description_raw |-> OrNull(item.description),
        location |-> location,
        salary_struct |-> normalizeSalaryFromJsonLd(item.baseSalary),
        employmentType |-> IF etTruthy THEN [isNull |-> FALSE, v |-> FilterTruthy(mapped)]
                           ELSE [isNull |-> TRUE, v |-> <<>>]]

\* ------------------------------------------------------------------------
\* HTML strings: parsing (cheerio load) and serialising (.html())
\* ------------------------------------------------------------------------

\* An HTML string is a sequence of characters and tag tokens; a start-tag
\* token is the markup of the tag.  The start tags the documents use, each
\* with the element it opens (tag, class tokens, attributes, void or not):
Tag(t, c, a, v) == [tag |-> t, cls |-> c, attrs |-> a, void |-> v]

TagTable ==
    { <<"<html>", Tag("html", {}, {}, FALSE)>>,
      <<"<head>", Tag("head", {}, {}, FALSE)>>,
      <<"<body>", Tag("body", {}, {}, FALSE)>>,
      <<"<main>", Tag("main", {}, {}, FALSE)>>,
      <<"<div>", Tag("div", {}, {}, FALSE)>>,
      <<"<span>", Tag("span", {}, {}, FALSE)>>,
      <<"<p>", Tag("p", {}, {}, FALSE)>>,
      <<"<b>", Tag("b", {}, {}, FALSE)>>,
      <<"<i>", Tag("i", {}, {}, FALSE)>>,
      <<"<ol>", Tag("ol", {}, {}, FALSE)>>,
      <<"<em>", Tag("em", {}, {}, FALSE)>>,
      <<"<h4>", Tag("h4", {}, {}, FALSE)>>,
      <<"<a>", Tag("a", {}, {}, FALSE)>>,
      <<"<br>", Tag("br", {}, {}, TRUE)>>,
      <<"<ul>", Tag("ul", {}, {}, FALSE)>>,
      <<"<li>", Tag("li", {}, {}, FALSE)>>,
      <<"<dl>", Tag("dl", {}, {}, FALSE)>>,
      <<"<dt>", Tag("dt", {}, {}, FALSE)>>,
      <<"<dd>", Tag("dd", {}, {}, FALSE)>>,
      <<"<strong>", Tag("strong", {}, {}, FALSE)>>,
      <<"<h1>", Tag("h1", {}, {}, FALSE)>>,
      <<"<h3>", Tag("h3", {}, {}, FALSE)>>,
      <<"<form>", Tag("form", {}, {}, FALSE)>>,
      <<"<input>", Tag("input", {}, {}, TRUE)>>,
      <<"<style>", Tag("style", {}, {}, FALSE)>>,
      <<"<script>", Tag("script", {}, {}, FALSE)>>,
      <<"<button>", Tag("button", {}, {}, FALSE)>>,
      <<"<a href=\"/x\">", Tag("a", {}, {<<"href", "/x">>}, FALSE)>>,
      <<"<a class=\"btn\" href=\"/x\">", Tag("a", {"btn"}, {<<"href", "/x">>}, FALSE)>>,
      <<"<p class=\"intro\">", Tag("p", {"intro"}, {}, FALSE)>>,
      <<"<div hidden>", Tag("div", {}, {<<"hidden", "">>}, FALSE)>>,
      <<"<div aria-hidden=\"true\">", Tag("div", {}, {<<"aria-hidden", "true">>}, FALSE)>>,
      <<"<div class=\"popup\">", Tag("div", {"popup"}, {}, FALSE)>>,
      <<"<div style=\"display:none;\">",
        Tag("div", {}, {<<"style", "display:none;">>}, FALSE)>>,
      <<"<h1 class=\"title_offer\">", Tag("h1", {"title_offer"}, {}, FALSE)>>,
      <<"<h1 class=\"fs21\">", Tag("h1", {"fs21"}, {}, FALSE)>>,
      <<"<div class=\"box_title\">", Tag("div", {"box_title"}, {}, FALSE)>>,
      <<"<div class=\"box_header\">", Tag("div", {"box_header"}, {}, FALSE)>>,
      <<"<a href=\"/empresas/acme\">", Tag("a", {}, {<<"href", "/empresas/acme">>}, FALSE)>>,
      <<"<a class=\"dIB mr10\">", Tag("a", {"dIB", "mr10"}, {}, FALSE)>>,
      <<"<div itemprop=\"hiringOrganization\">",
        Tag("div", {}, {<<"itemprop", "hiringOrganization">>}, FALSE)>>,
      <<"<span itemprop=\"name\">", Tag("span", {}, {<<"itemprop", "name">>}, FALSE)>>,
      <<"<div itemprop=\"jobLocation\">",
        Tag("div", {}, {<<"itemprop", "jobLocation">>}, FALSE)>>,
      <<"<span itemprop=\"addressLocality\">",
        Tag("span", {}, {<<"itemprop", "addressLocality">>}, FALSE)>>,
      <<"<p class=\"fs16 mb5\">", Tag("p", {"fs16", "mb5"}, {}, FALSE)>>,
      <<"<p class=\"fc_aux fs13 mtB\">", Tag("p", {"fc_aux", "fs13", "mtB"}, {}, FALSE)>>,
      <<"<div class=\"dFlex mb10\">", Tag("div", {"dFlex", "mb10"}, {}, FALSE)>>,
      <<"<div class=\"fs16 t_word_wrap\">", Tag("div", {"fs16", "t_word_wrap"}, {}, FALSE)>>,
      <<"<div itemprop=\"description\">",
        Tag("div", {}, {<<"itemprop", "description">>}, FALSE)>>,
      <<"<div class=\"box_detail\">", Tag("div", {"box_detail"}, {}, FALSE)>>,
      <<"<input type=\"password\">", Tag("input", {}, {<<"type", "password">>}, TRUE)>>,
      <<"<form action=\"/login/submit\">",
        Tag("form", {}, {<<"action", "/login/submit">>}, FALSE)>>,
      <<"<a href=\"/oferta-1\">", Tag("a", {}, {<<"href", "/oferta-1">>}, FALSE)>>,
      <<"<a href=\"/oferta-2\">", Tag("a", {}, {<<"href", "/oferta-2">>}, FALSE)>>,
      <<"<a href=\"/oferta-3\">", Tag("a", {}, {<<"href", "/oferta-3">>}, FALSE)>>,
      <<"<a href=\"?page=2\">", Tag("a", {}, {<<"href", "?page=2">>}, FALSE)>>,
      <<"<a class=\"js-o-link\" href=\"/trabajo-de-a/j1\">",
        Tag("a", {"js-o-link"}, {<<"href", "/trabajo-de-a/j1">>}, FALSE)>>,
      <<"<a class=\"js-o-link\" href=\"/trabajo-de-a/j2\">",
        Tag("a", {"js-o-link"}, {<<"href", "/trabajo-de-a/j2">>}, FALSE)>>,
      <<"<a class=\"js-o-link\">", Tag("a", {"js-o-link"}, {}, FALSE)>>,
      <<"<a class=\"js-o-pager next\" href=\"/empleos-a-p2\">",
        Tag("a", {"js-o-pager", "next"}, {<<"href", "/empleos-a-p2">>}, FALSE)>>,
      <<"<a rel=\"next\" href=\"/trabajo-de-a?p=3\">",
        Tag("a", {}, {<<"rel", "next">>, <<"href", "/trabajo-de-a?p=3">>}, FALSE)>> }

OpenTags ==
    [tok \in {e[1] : e \in TagTable} |-> (CHOOSE e \in TagTable : e[1] = tok)[2]]

CloseToken(tag) == "</" \o tag \o ">"

CloseTags == {CloseToken(e[2].tag) : e \in {x \in TagTable : ~x[2].void}}

IsOpen(tok) == tok \in DOMAIN OpenTags
IsClose(tok) == tok \in CloseTags
IsChar(tok) == ~IsOpen(tok) /\ ~IsClose(tok)

\* String.prototype.length of an HTML string
RECURSIVE LenRange(_, _, _)
LenRange(s, a, b) ==
    IF a > b THEN 0
    ELSE IF a = b
    THEN (IF IsOpen(s[a]) \/ IsClose(s[a]) THEN Len(s[a]) ELSE 1)
    ELSE LET m == (a + b) \div 2 IN LenRange(s, a, m) + LenRange(s, m + 1, b)

JsLen(s) == LET all(v) == LenRange(v, 1, Len(v)) IN With(s, all)

\* the end of the run of characters that starts at i
RunEnd(t, i) ==
    CHOOSE j \in i..Len(t) :
        /\ \A q \in (i + 1)..j : IsChar(t[q])
        /\ j = Len(t) \/ ~IsChar(t[j + 1])

\* the nodes from position i up to the end tag that closes their parent;
\* next is the position of that end tag
RECURSIVE ParseFrom(_, _)
ParseFrom(t, i) ==
    IF i > Len(t) \/ IsClose(t[i]) THEN [f |-> <<>>, next |-> i]
    ELSE IF IsOpen(t[i])
    THEN LET h == OpenTags[t[i]]
             inner == IF h.void THEN [f |-> <<>>, next |-> i] ELSE ParseFrom(t, i + 1)
             rest == ParseFrom(t, inner.next + 1)
         IN [f |-> <<El(h.tag, h.cls, h.attrs, inner.f)>> \o rest.f, next |-> rest.next]
    ELSE LET j == RunEnd(t, i)
             rest == ParseFrom(t, j + 1)
         IN [f |-> <<Txt(SubSeq(t, i, j))>> \o rest.f, next |-> rest.next]

ParseHtml(t) == ParseFrom(t, 1).f

OpenToken(n) ==
    CHOOSE tok \in DOMAIN OpenTags :
        LET h == OpenTags[tok] IN h.tag = n.tag /\ h.cls = n.cls /\ h.attrs = n.attrs

IsVoid(n) == \E e \in TagTable : e[2].tag = n.tag /\ e[2].void

\* .html(): the markup of a forest
RECURSIVE Serialize(_)
Serialize(f) ==
    IF f = <<>> THEN <<>>
    ELSE LET n == Head(f) IN
         (IF n.tag = "#text" THEN n.data
          ELSE IF IsVoid(n) THEN <<OpenToken(n)>>
          ELSE <<OpenToken(n)>> \o Serialize(n.kids) \o <<CloseToken(n.tag)>>)
         \o Serialize(Tail(f))

\* a document serialised with its wrapper elements, as $.root().html() gives
IsWrapped(t) ==
    /\ Len(t) >= 6
    /\ SubSeq(t, 1, 4) = <<"<html>", "<head>", "</head>", "<body>">>
    /\ SubSeq(t, Len(t) - 1, Len(t)) = <<"</body>", "</html>">>

\* cheerio load(html): the parser wraps the content in html, head and body
cheerioLoad(html) ==
    LET content == IF IsWrapped(html) THEN SubSeq(html, 5, Len(html) - 2) ELSE html
    IN << El("html", {}, {}, << El("head", {}, {}, <<>>),
                               El("body", {}, {}, ParseHtml(content)) >>) >>

\* $(selector).remove() on the whole document
RECURSIVE RemoveSel(_, _, _)
RemoveSel(f, anc, group) ==
    IF f = <<>> THEN <<>>
    ELSE LET n == Head(f) IN
         (IF ~IsElement(n) THEN <<n>>
          ELSE IF MatchesGroup(n, anc, group) THEN <<>>
          ELSE <<[n EXCEPT !.kids = RemoveSel(n.kids, Append(anc, n), group)]>>)
         \o RemoveSel(Tail(f), anc, group)

Remove(f, group) == RemoveSel(f, <<>>, group)

\* a selector group of simple selectors
Simple(sels) == [i \in 1..Len(sels) |-> <<sels[i]>>]

\* cleanHtmlToText
cleanHtmlToText(html) ==
    IF ~Truthy(html) THEN Null
    ELSE LET d == Remove(cheerioLoad(html),
                         Simple(<<STag("script"), STag("style"), STag("noscript"),
                                  STag("iframe"), STag("form"), STag("button"),
                                  STag("svg")>>))
         IN normText(ForestText(d))

\* ------------------------------------------------------------------------
\* stripAttrsKeepTags
\* ------------------------------------------------------------------------

allowedTags == {"p", "br", "ul", "ol", "li", "strong", "em", "b", "i", "a", "h3", "h4"}

\* what the callback of $('*').each leaves of a forest once it has run on
\* every element in it: an element outside allowedTags is replaced by its
\* contents, an allowed one keeps only an anchor's href
RECURSIVE UnwrapStrip(_)
UnwrapStrip(f) ==
    IF f = <<>> THEN <<>>
    ELSE LET n == Head(f) IN
         (IF ~IsElement(n) THEN <<n>>
          ELSE IF n.tag \notin allowedTags THEN UnwrapStrip(n.kids)
          ELSE <<[n EXCEPT !.cls = {},
                           !.attrs = {a \in n.attrs : n.tag = "a" /\ a[1] = "href"},
                           !.kids = UnwrapStrip(n.kids)]>>)
         \o UnwrapStrip(Tail(f))

\* the same loop run on the contents of body only, the wrapper elements the
\* parser added left in place
EachBelowBody(d) ==
    << [d[1] EXCEPT !.kids =
          [i \in 1..Len(d[1].kids) |->
              IF d[1].kids[i].tag = "body"
              THEN [d[1].kids[i] EXCEPT !.kids = UnwrapStrip(d[1].kids[i].kids)]
              ELSE d[1].kids[i]]] >>

\* the loop run on the children of body only: a child outside allowedTags
\* gives way to its contents, which the loop does not visit
EachChildOfBody(d) ==
    << [d[1] EXCEPT !.kids =
          [i \in 1..Len(d[1].kids) |->
              IF d[1].kids[i].tag = "body"
              THEN [d[1].kids[i] EXCEPT !.kids =
                      Concat([k \in 1..Len(d[1].kids[i].kids) |->
                                LET n == d[1].kids[i].kids[k]
                                IN IF IsElement(n) /\ n.tag \notin allowedTags
                                   THEN n.kids ELSE <<n>>])]
              ELSE d[1].kids[i]]] >>

\* $('*').each((_, el) => ...): the selection holds every element of the
\* loaded document, html, head and body among them
EachElement(d) == UnwrapStrip(d)

\* node.data = normText(node.data) on the text children of the elements of f
RECURSIVE NormTextNodes(_, _)
NormTextNodes(f, inElement) ==
    IF f = <<>> THEN <<>>
    ELSE LET n == Head(f) IN
         <<(IF IsElement(n) THEN [n EXCEPT !.kids = NormTextNodes(n.kids, TRUE)]
            ELSE IF inElement /\ n.data # <<>> THEN [n EXCEPT !.data = normText(n.data)]
            ELSE n)>>
         \o NormTextNodes(Tail(f), inElement)

\* out.replace(/\s+\n/g, '\n'): a whitespace character goes when a newline
\* follows it in the same whitespace run
ReplaceWsNl(t) ==
    LET eaten(p) == /\ IsSpace(t[p])
                    /\ \E k \in (p + 1)..Len(t) :
                          t[k] = "\n" /\ \A q \in p..k : IsSpace(t[q])
    IN Concat([p \in 1..Len(t) |-> IF eaten(p) THEN <<>> ELSE <<t[p]>>])

\* $('body').find('*').contents().each(...); $('body').html() || ''
BodyHtml(body) ==
    IF body = <<>> THEN <<>> ELSE Serialize(NormTextNodes(body[1].kids, FALSE))

\* the three .remove() calls: non-content elements, overlays and hidden
\* elements go with everything below them
RemoveNonContent(d0) ==
    LET d1 == Remove(d0, Simple(<<STag("script"), STag("style"), STag("noscript"),
                                  STag("iframe"), STag("form"), STag("button"), STag("svg"),
                                  STag("input"), STag("textarea"), STag("select")>>))
        d2 == Remove(d1, Simple(<<SAttr({<<"data-complaint-overlay", "has", "">>}),
                                  SAttr({<<"id", "=", "complaint-popup-container">>}),
                                  SCls({"popup"}),
                                  SAttr({<<"aria-hidden", "=", "true">>})>>))
    IN Remove(d2, Simple(<<SAttr({<<"style", "*=", "display:none">>}),
                           SAttr({<<"hidden", "has", "">>})>>))

stripAttrsKeepTags(html) ==
    IF ~Truthy(html) THEN <<>>
    ELSE
    LET d3 == RemoveNonContent(cheerioLoad(html))
        d4 == EachElement(d3)
    IN Trim(ReplaceWsNl(BodyHtml(Select(d4, Simple(<<STag("body")>>)))))

\* ------------------------------------------------------------------------
\* Labelled values, company names
\* ------------------------------------------------------------------------

\* A label regex such as /ciudad/i is the set of the lower-case
\* strings it matches; it is tested without regard to case.
ReTest(alts, text) == \E a \in alts : Includes(toLowerCase(text), a)

\* text.replace(re, ''): the leftmost match removed
ReRemoveFirst(alts, text) ==
    LET low == toLowerCase(text)
        hits == {a \in alts : Includes(low, a)}
    IN IF hits = {} THEN text
       ELSE LET a == CHOOSE x \in hits : \A y \in hits : IndexOf(low, x) <= IndexOf(low, y)
                i == IndexOf(low, a)
            IN SubSeq(text, 1, i) \o SubSeq(text, i + Len(a) + 1, Len(text))

\* the value one matching chip gives: the text after the first colon, else
\* the second span, else the text without the label
ChipValue(li, text, alts) ==
    IF Includes(text, <<":">>)
    THEN normText(SubSeq(text, IndexOf(text, <<":">>) + 2, Len(text)))
    ELSE LET spans == Find(li, Simple(<<STag("span")>>)) IN
         IF Len(spans) >= 2 THEN normText(TextContent(spans[2]))
         ELSE Trim(ReRemoveFirst(alts, text))

\* the first regex of the list that matches the text (0 when none does)
FirstRe(labelRegexes, text) ==
    IF \E k \in 1..Len(labelRegexes) : ReTest(labelRegexes[k], text)
    THEN CHOOSE k \in 1..Len(labelRegexes) :
            /\ ReTest(labelRegexes[k], text)
            /\ \A j \in 1..(k - 1) : ~ReTest(labelRegexes[j], text)
    ELSE 0

\* 1) the .each over the chips: the first element whose text matches a label
\* sets val and ends the loop
RECURSIVE ChipScan(_, _)
ChipScan(lis, labelRegexes) ==
    IF lis = <<>> THEN Null
    ELSE LET text == normText(TextContent(Head(lis)))
             k == FirstRe(labelRegexes, text)
         IN IF text # <<>> /\ k # 0 THEN ChipValue(Head(lis), text, labelRegexes[k])
            ELSE ChipScan(Tail(lis), labelRegexes)

\* 2) the .each over dt: the first dt whose label matches a regex and that a
\* dd follows sets val and ends the loop
RECURSIVE DtScan(_, _, _)
DtScan(dts, labelRegexes, val) ==
    IF dts = <<>> THEN val
    ELSE LET label == normText(TextContent(Head(dts).n))
             after == Head(dts).after
             hasDd == after # <<>> /\ after[1].tag = "dd"
         IN IF FirstRe(labelRegexes, label) # 0 /\ hasDd
            THEN normText(TextContent(after[1]))
            ELSE DtScan(Tail(dts), labelRegexes, val)

extractLabeledValue(body, labelRegexes) ==
    LET chips == Select(body, <<<<STag("li")>>, <<SCls({"box_attributes"}), STag("li")>>,
                                <<SCls({"attribute"})>>, <<SCls({"chip"})>>,
                                <<SCls({"tag"})>>>>)
        val == ChipScan(chips, labelRegexes)
    IN IF Truthy(val) THEN val
       ELSE DtScan(SelectW(body, Simple(<<STag("dt")>>)), labelRegexes, val)

\* \w of a JS regex without the u flag
IsWord(c) ==
    \/ IsDigit(c)
    \/ c = "_"
    \/ c \in {"a", "b", "c", "d", "e", "f", "g", "h", "i", "j", "k", "l", "m", "n", "o",
              "p", "q", "r", "s", "t", "u", "v", "w", "x", "y", "z"}
    \/ c \in {"A", "B", "C", "D", "E", "F", "G", "H", "I", "J", "K", "L", "M", "N", "O",
              "P", "Q", "R", "S", "T", "U", "V", "W", "X", "Y", "Z"}

WordAt(s, k) == k >= 1 /\ k <= Len(s) /\ IsWord(s[k])

\* \b between s[k] and s[k+1]
BoundaryAfter(s, k) == WordAt(s, k) # WordAt(s, k + 1)

\* the length of the match of /\b\d[\d.,]{0,3}\b/ at position i, 0 if none
NumTokenLen(s, i) ==
    LET ok(n) == /\ i + n <= Len(s)
                 /\ \A k \in (i + 1)..(i + n) : IsDigit(s[k]) \/ s[k] \in {".", ","}
                 /\ BoundaryAfter(s, i + n)
        ns == {n \in 0..3 : ok(n)}
    IN IF BoundaryAfter(s, i - 1) /\ IsDigit(s[i]) /\ ns # {}
       THEN 1 + (CHOOSE n \in ns : \A m \in ns : m <= n)
       ELSE 0

\* s.replace(/\b\d[\d.,]{0,3}\b/g, '') from position i on: the text up to
\* the next match, then the rest after it
RECURSIVE StripNumTokens(_, _)
StripNumTokens(s, i) ==
    LET starts == {k \in i..Len(s) : NumTokenLen(s, k) > 0} IN
    IF starts = {} THEN SubSeq(s, i, Len(s))
    ELSE LET k == Least(starts)
             rest(v) == StripNumTokens(s, v)
         IN SubSeq(s, i, k - 1) \o With(k + NumTokenLen(s, k), rest)

\* s.split(sep)[0]
BeforeFirst(s, sep) == IF Includes(s, sep) THEN SubSeq(s, 1, IndexOf(s, sep)) ELSE s

\* the mojibake the later revision of main.js holds in place of the accented
\* letters: "sqrt" "ge" for o-acute, "sqrt" "deg" for a-acute, "sqrt" "ne" for
\* i-acute, "sqrt" "pm" for n-tilde, "not" "deg" for the inverted exclamation
\* mark, "not" "sum" for the middle dot
STOP_TOKENS ==
    << Chars("seguir"), Chars("volver"),
       Chars("informaci") \o <<"sqrt", "ge">> \o Chars("n b") \o <<"sqrt", "deg">> \o Chars("sica"),
       Chars("pol") \o <<"sqrt", "ne">> \o Chars("tica de privacidad"),
       Chars("responsable"), Chars("finalidad"),
       Chars("legitimaci") \o <<"sqrt", "ge">> \o Chars("n"),
       Chars("destinatarios"), Chars("derechos"),
       <<"not", "deg">> \o Chars("no te pierdas"),
       Chars("recibe notificaciones"), Chars("formato incorrecto"),
       Chars("contrase") \o <<"sqrt", "pm">> \o Chars("a incorrecta"),
       Chars("acepto las condiciones"), Chars("ver detalle legal") >>

\* for (const tok of STOP_TOKENS) { idx = ...; if (idx > 0) s = s.slice(0, idx).trim(); }
RECURSIVE CutStopTokens(_, _)
CutStopTokens(s, toks) ==
    IF toks = <<>> THEN s
    ELSE LET idx == IndexOf(toLowerCase(s), Head(toks))
             rest(v) == CutStopTokens(v, Tail(toks))
         IN With((IF idx > 0 THEN Trim(SubSeq(s, 1, idx)) ELSE s), rest)

\* s.replace(/[...|]+$/g, ''): the trailing run of the listed characters
StripTrailing(s, cs) ==
    LET keep == {i \in 1..Len(s) : s[i] \notin cs}
    IN IF keep = {} THEN <<>> ELSE SubSeq(s, 1, Greatest(keep))

\* s.replace(/\s{2,}/g, ' ')
CollapseRuns(s) ==
    Concat([i \in 1..Len(s) |->
              IF ~IsSpace(s[i]) THEN <<s[i]>>
              ELSE IF i > 1 /\ IsSpace(s[i - 1]) THEN <<>>
              ELSE IF i < Len(s) /\ IsSpace(s[i + 1]) THEN <<" ">>
              ELSE <<s[i]>>])

CompanyMaxLen == 80

cleanCompanyName(raw) ==
    LET s0 == normText(raw) IN
    IF s0 = <<>> THEN Null
    ELSE
    LET s1 == BeforeFirst(BeforeFirst(BeforeFirst(s0, <<"\n">>), <<"|">>), <<"not", "sum">>)
        s2 == Trim(StripNumTokens(s1, 1))
        s3 == CutStopTokens(s2, STOP_TOKENS)
        s4 == Trim(CollapseRuns(
                 StripTrailing(s3, {"sbquo", "Auml", "cent", "not", "sum", "|"})))
        s5 == IF Len(s4) > CompanyMaxLen THEN Trim(SubSeq(s4, 1, CompanyMaxLen)) ELSE s4
    IN OrNull(s5)

\* ------------------------------------------------------------------------
\* parseSpanishRelativeDateToISO
\* ------------------------------------------------------------------------

\* an instant of the clock, to the minute (the process runs in UTC)
Instant(y, mo, d, h, mi) == [y |-> y, mo |-> mo, d |-> d, h |-> h, mi |-> mi]

\* days since 1970-01-01 of a civil date; a day number beyond the month's
\* length runs on into the following months, as MakeDay has it
DaysFromCivil(y, m, d) ==
    LET yy == IF m <= 2 THEN y - 1 ELSE y
        era == yy \div 400
        yoe == yy - era * 400
        mp == IF m > 2 THEN m - 3 ELSE m + 9
        doy == (153 * mp + 2) \div 5 + d - 1
        doe == yoe * 365 + yoe \div 4 - yoe \div 100 + doy
    IN era * 146097 + doe - 719468

CivilFromDays(z0) ==
    LET z == z0 + 719468
        era == z \div 146097
        doe == z - era * 146097
        yoe == (doe - doe \div 1460 + doe \div 36524 - doe \div 146096) \div 365
        doy == doe - (365 * yoe + yoe \div 4 - yoe \div 100)
        mp == (5 * doy + 2) \div 153
        d == doy - (153 * mp + 2) \div 5 + 1
        m == IF mp < 10 THEN mp + 3 ELSE mp - 9
    IN [y |-> yoe + era * 400 + (IF m <= 2 THEN 1 ELSE 0), mo |-> m, d |-> d]

\* the instant a number of minutes since the epoch stands for
FromMinutes(t) ==
    LET c == CivilFromDays(t \div 1440)
    IN Instant(c.y, c.mo, c.d, (t % 1440) \div 60, t % 60)

ToMinutes(i) == DaysFromCivil(i.y, i.mo, i.d) * 1440 + i.h * 60 + i.mi

\* Date fields set to month index m0 (0-based, any integer) and day d of
\* year y, normalised
MakeDate(y, m0, d, h, mi) ==
    LET yy == y + (m0 \div 12)
        mm == (m0 % 12) + 1
    IN FromMinutes(DaysFromCivil(yy, mm, 1) * 1440 + (d - 1) * 1440 + h * 60 + mi)

DigitChar(n) == SubSeq("0123456789", n + 1, n + 1)

Pad2(n) == <<DigitChar((n \div 10) % 10), DigitChar(n % 10)>>

Pad4(n) == Pad2(n \div 100) \o Pad2(n % 100)

\* Date.prototype.toISOString (seconds and milliseconds of the clock left 0)
toISOString(i) ==
    Pad4(i.y) \o <<"-">> \o Pad2(i.mo) \o <<"-">> \o Pad2(i.d) \o <<"T">>
    \o Pad2(i.h) \o <<":">> \o Pad2(i.mi) \o Chars(":00.000Z")

DigitVal(c) == CHOOSE n \in 0..9 : DigitChar(n) = c

\* Number(digits)
RECURSIVE NumberOf(_)
NumberOf(ds) ==
    IF ds = <<>> THEN 0 ELSE NumberOf(SubSeq(ds, 1, Len(ds) - 1)) * 10 + DigitVal(ds[Len(ds)])

AllDigits(s, a, b) == b <= Len(s) /\ \A k \in a..b : IsDigit(s[k])

StartsWithAt(s, i, lit) == i >= 1 /\ i + Len(lit) - 1 <= Len(s) /\ SubSeq(s, i, i + Len(lit) - 1) = lit

\* the first position from i on that holds no whitespace (Len(s) + 1 if none)
SkipWs(s, i) == Least({k \in i..(Len(s) + 1) : k = Len(s) + 1 \/ ~IsSpace(s[k])})

\* /\d{4}-\d{2}-\d{2}/ matches at position i
IsoDateAt(s, i) ==
    /\ i + 9 <= Len(s)
    /\ AllDigits(s, i, i + 3) /\ s[i + 4] = "-"
    /\ AllDigits(s, i + 5, i + 6) /\ s[i + 7] = "-"
    /\ AllDigits(s, i + 8, i + 9)

\* (?:[ t]\d{2}:\d{2}(?::\d{2})?)? after the date at i: the length matched
IsoTimeLen(s, i) ==
    IF /\ i + 15 <= Len(s)
       /\ s[i + 10] \in {" ", "t"}
       /\ AllDigits(s, i + 11, i + 12) /\ s[i + 13] = ":"
       /\ AllDigits(s, i + 14, i + 15)
    THEN (IF i + 18 <= Len(s) /\ s[i + 16] = ":" /\ AllDigits(s, i + 17, i + 18)
          THEN 9 ELSE 6)
    ELSE 0

\* new Date(iso[0]) for the matched text text: the date-only form is read as
\* UTC midnight, the form with a time as that time (the process runs in UTC);
\* a month outside 1..12, a day outside 1..31, or an impossible hour, minute
\* or second gives an invalid Date, and a day beyond the month's length runs
\* on into the next month
NewDate(text) ==
    LET y == NumberOf(SubSeq(text, 1, 4))
        mo == NumberOf(SubSeq(text, 6, 7))
        d == NumberOf(SubSeq(text, 9, 10))
        timed == Len(text) > 10
        h == IF timed THEN NumberOf(SubSeq(text, 12, 13)) ELSE 0
        mi == IF timed THEN NumberOf(SubSeq(text, 15, 16)) ELSE 0
        sec == IF Len(text) > 16 THEN NumberOf(SubSeq(text, 18, 19)) ELSE 0
        valid == /\ mo \in 1..12 /\ d \in 1..31
                 /\ h <= 23 /\ mi <= 59 /\ sec <= 59
    IN [valid |-> valid, at |-> IF valid THEN MakeDate(y, mo - 1, d, h, mi)
                                ELSE Instant(y, mo, d, h, mi)]

\* the words for day and year as the two copies of the interpreter hold
\* them: the earlier copy with the accented letters, the later copy with
\* the bytes its part of the source file holds in their place
DiaEarlier == <<"d", "i'", "a">>
AnoEarlier == <<"a", "n~", "o">>
DiaLater == <<"d", "sqrt", "ne", "a">>
AnoLater == <<"a", "sqrt", "pm", "o">>

\* the units of the relative pattern in the order of the alternation
UnitsOf(dia, ano) ==
    << Chars("minutos"), Chars("minuto"), Chars("horas"), Chars("hora"),
       dia \o <<"s">>, dia,
       Chars("semanas"), Chars("semana"), Chars("meses"), Chars("mes"),
       ano \o <<"s">>, ano >>

\* the match of /hace\s+(\d+|una|un)\s+(unit)/ that starts at position i:
\* [ok, qtyRaw, unit]
RelAt(relUnits, s, i) ==
    LET none == [ok |-> FALSE, qtyRaw |-> <<>>, unit |-> <<>>]
        q == SkipWs(s, i + 4)
        dEnd == Greatest({q - 1} \cup {k \in q..Len(s) : AllDigits(s, q, k)})
        qEnd == IF dEnd >= q THEN dEnd
                ELSE IF StartsWithAt(s, q, Chars("una")) /\ q + 3 <= Len(s) /\ IsSpace(s[q + 3])
                THEN q + 2
                ELSE IF StartsWithAt(s, q, Chars("un")) THEN q + 1 ELSE q - 1
        u == SkipWs(s, qEnd + 1)
        units == {k \in 1..Len(relUnits) : StartsWithAt(s, u, relUnits[k])}
    IN IF /\ StartsWithAt(s, i, Chars("hace")) /\ q > i + 4
          /\ qEnd >= q /\ u > qEnd + 1 /\ units # {}
       THEN [ok |-> TRUE, qtyRaw |-> SubSeq(s, q, qEnd), unit |-> relUnits[Least(units)]]
       ELSE none

\* the Date the relative branch computes from now
RelDate(clock, qtyRaw, unit, dia, ano) ==
    LET qty == IF qtyRaw \in {Chars("una"), Chars("un")} THEN 1 ELSE NumberOf(qtyRaw)
    IN IF Includes(unit, Chars("minuto")) THEN FromMinutes(ToMinutes(clock) - qty)
       ELSE IF Includes(unit, Chars("hora")) THEN FromMinutes(ToMinutes(clock) - qty * 60)
       ELSE IF Includes(unit, dia)
       THEN FromMinutes(ToMinutes(clock) - qty * 1440)
       ELSE IF Includes(unit, Chars("semana")) THEN FromMinutes(ToMinutes(clock) - qty * 7 * 1440)
       ELSE IF Includes(unit, Chars("mes"))
       THEN MakeDate(clock.y, clock.mo - 1 - qty, clock.d, clock.h, clock.mi)
       ELSE IF Includes(unit, ano)
       THEN MakeDate(clock.y - qty, clock.mo - 1, clock.d, clock.h, clock.mi)
       ELSE clock

\* the interpreter with the words for day and year of one of its copies
ParseDateWith(s, clock, dia, ano) ==
    LET str == toLowerCase(OrEmpty(s))
        relUnits == UnitsOf(dia, ano)
        isoAt == {i \in 1..Len(str) : IsoDateAt(str, i)}
        iso == IF isoAt = {} THEN <<>>
               ELSE LET i == Least(isoAt) IN SubSeq(str, i, i + 9 + IsoTimeLen(str, i))
        d == IF iso = <<>> THEN [valid |-> FALSE, at |-> clock] ELSE NewDate(iso)
        relAt == {i \in 1..Len(str) : RelAt(relUnits, str, i).ok}
    IN IF str = <<>> THEN Null
       ELSE IF d.valid THEN toISOString(d.at)
       ELSE IF relAt # {}
       THEN LET rel == RelAt(relUnits, str, Least(relAt))
            IN toISOString(RelDate(clock, rel.qtyRaw, rel.unit, dia, ano))
       ELSE Null

\* the earlier copy of the interpreter
parseSpanishRelativeDateToISOEarlier(s, clock) == ParseDateWith(s, clock, DiaEarlier, AnoEarlier)

\* the later copy, which extractJobDetail calls
parseSpanishRelativeDateToISO(s, clock) == ParseDateWith(s, clock, DiaLater, AnoLater)

\* ------------------------------------------------------------------------
\* Field pickers
\* ------------------------------------------------------------------------

\* a page as the handlers see it: the text of <title>, the JSON-LD script
\* blocks (in the head, in document order) and the contents of <body>
Doc(t, ld, body) == [title |-> t, ld |-> ld, body |-> body]

\* the accented letters of the selectors and patterns, as the bytes the
\* source file holds
OAcute == <<"sqrt", "ge">>
AAcute == <<"sqrt", "deg">>
IAcute == <<"sqrt", "ne">>
MidDot == <<"not", "sum">>

\* s.replace(/lit.*$/i, ''): the text from the first lit on goes (the texts
\* this is applied to hold no line break)
CutFromCI(s, lit) ==
    LET idx == IndexOf(toLowerCase(s), lit) IN IF idx >= 0 THEN SubSeq(s, 1, idx) ELSE s

\* s.replace(/lit(opt)?/gi, ''): every occurrence of lit, with the character
\* opt when it follows (opt = "" for none)
RECURSIVE RemoveAllCI(_, _, _)
RemoveAllCI(s, lit, opt) ==
    LET idx == IndexOf(toLowerCase(s), lit) IN
    IF idx < 0 THEN s
    ELSE LET after == idx + Len(lit) + 1
             from == IF opt # "" /\ after <= Len(s) /\ s[after] = opt THEN after + 1 ELSE after
             rest(v) == RemoveAllCI(v, lit, opt)
         IN SubSeq(s, 1, idx) \o With(SubSeq(s, from, Len(s)), rest)

\* s.replace(/\s*-\s*Publicado.*$/i, '')
CutDashPublicado(s) ==
    LET low == toLowerCase(s)
        dashes == {q \in 1..Len(s) :
                     s[q] = "-" /\ StartsWithAt(low, SkipWs(s, q + 1), Chars("publicado"))}
    IN IF dashes = {} THEN s
       ELSE LET q == Least(dashes)
                lead == {k \in 1..q : \A j \in k..(q - 1) : IsSpace(s[j])}
            IN SubSeq(s, 1, Least(lead) - 1)

\* s.replace(/^(Jornada|Tipo de contrato|Modalidad):\s*/i, '')
StripTypePrefix(s) ==
    LET low == toLowerCase(s)
        heads == {h \in {Chars("jornada:"), Chars("tipo de contrato:"), Chars("modalidad:")} :
                    StartsWithAt(low, 1, h)}
    IN IF heads = {} THEN s
       ELSE LET h == CHOOSE x \in heads : TRUE
            IN SubSeq(s, SkipWs(s, Len(h) + 1), Len(s))

\* $(sel).first(): whether anything matched, and the text of the first match
FirstOf(m) == [hit |-> m # <<>>, text |-> IF m = <<>> THEN <<>> ELSE TextContent(m[1])]

Probe(body, group) == FirstOf(Select(body, group))

\* a candidate of a selector loop: accepted or not, and its value
Cand(ok, v) == [ok |-> ok, v |-> v]

\* if (el.length) { txt = ...; if (txt && txt.length > min) ... }
CandLonger(hit, txt, min) == Cand(hit /\ Truthy(txt) /\ Len(txt) > min, txt)

\* if (v) field = v
CandTruthy(v) == Cand(Truthy(v), v)

\* a loop without the break: later accepted candidates overwrite earlier ones
LastAccepted(cands) ==
    LET hits == {k \in 1..Len(cands) : cands[k].ok}
    IN IF hits = {} THEN Null ELSE cands[Greatest(hits)].v

\* for (const sel of selectors) { ...; if (accepted) { field = txt; break; } }
FirstAccepted(cands) ==
    LET hits == {k \in 1..Len(cands) : cands[k].ok}
    IN IF hits = {} THEN Null ELSE cands[Least(hits)].v

Itemprop(v) == SAttr({<<"itemprop", "=", v>>})

HrefHas(v) == Sel("a", {}, "", {<<"href", "*=", v>>}, Null)

PContains(text) == Sel("p", {}, "", {}, text)

\* the selector lists of pickCompanyFromDom, each with the text it gives
CompanyDomSelectors ==
    << <<<<Itemprop("hiringOrganization"), Itemprop("name")>>>>,
       <<<<Sel("", {}, "", {<<"itemscope", "has", "">>, <<"itemtype", "*=", "Organization">>},
               Null), Itemprop("name")>>>>,
       <<<<HrefHas("/empresas/")>>>>,
       <<<<HrefHas("/empresa/")>>>>,
       <<<<SCls({"box_header"}), HrefHas("/empresa")>>>>,
       <<<<Sel("a", {}, "", {}, Chars("Ver m") \o AAcute \o Chars("s sobre la empresa"))>>>>,
       <<<<Sel("a", {}, "", {},
               Chars("Ver m") \o AAcute \o Chars("s sobre la compa") \o <<"sqrt", "pm">>
               \o IAcute \o Chars("a"))>>>>,
       << <<SCls({"box_header"}), SCls({"fc_base"})>>,
          <<SCls({"box_header"}), SCls({"fc_base"}), STag("a")>>,
          <<SCls({"box_header"}), SCls({"fc_base"}), STag("span")>> >>,
       << <<SCls({"box_header"}), STag("a")>>, <<SCls({"box_company"}), STag("a")>>,
          <<SClsSub("company"), STag("a")>> >> >>

\* $(a).first().text() || $(b).first().text(): the text of the first probe
\* when it has one, else that of the second
OrElseText(a, b) == IF a # <<>> THEN a ELSE b

\* pickCompanyFromDom: the microdata pair is one candidate, then one candidate
\* per selector
pickCompanyCands(body) ==
    [k \in 1..(Len(CompanyDomSelectors) - 1) |->
        CandTruthy(cleanCompanyName(
            IF k = 1 THEN OrElseText(Probe(body, CompanyDomSelectors[1]).text,
                                     Probe(body, CompanyDomSelectors[2]).text)
            ELSE Probe(body, CompanyDomSelectors[k + 1]).text))]

pickCompanyFromDom(body) == FirstAccepted(pickCompanyCands(body))

\* /pre[o..]post/: the class holds o and the two characters the source file
\* has in place of the accented o
OClass(pre, post) == {pre \o <<c>> \o post : c \in {"o", "sqrt", "ge"}}

LocationLabels ==
    << OClass(Chars("ubicaci"), Chars("n")),
       {Chars("ciudad")}, {Chars("estado")}, {Chars("localidad")} >>

LocationMaxLen == 120

\* pickFirstNonEmpty(chip, fallbackText)
pickFirstNonEmpty(a, b) ==
    IF a # Null /\ normText(a) # <<>> THEN normText(a)
    ELSE IF b # Null /\ normText(b) # <<>> THEN normText(b) ELSE Null

\* loc.slice(0, 120).trim() for a longer text
ClipLocation(loc) ==
    OrNull(IF Len(loc) > LocationMaxLen THEN Trim(SubSeq(loc, 1, LocationMaxLen)) ELSE loc)

\* the cleanup of the labelled text
TidyLocation(loc) ==
    IF loc = Null THEN Null
    ELSE ClipLocation(
            Trim(BeforeFirst(
                   BeforeFirst(
                      Trim(CollapseRuns(
                             CutFromCI(CutFromCI(CutFromCI(loc, Chars("publicado")),
                                                 Chars("postular")),
                                       Chars("ver detalle legal")))),
                      <<"|">>),
                   MidDot)))

PartsOrText(parts, loc) == IF parts # <<>> THEN Join(parts, <<",", " ">>) ELSE loc

pickLocation(body, fallbackText) ==
    PartsOrText(
        FilterTruthy(
            <<normText(Probe(body, <<<<Itemprop("jobLocation"),
                                       Itemprop("addressLocality")>>>>).text),
              normText(Probe(body, <<<<Itemprop("jobLocation"),
                                       Itemprop("addressRegion")>>>>).text),
              normText(Probe(body, <<<<Itemprop("jobLocation"),
                                       Itemprop("addressCountry")>>>>).text)>>),
        TidyLocation(pickFirstNonEmpty(extractLabeledValue(body, LocationLabels),
                                       fallbackText)))

MinDescriptionLen == 40

DescriptionCandidates ==
    << <<<<Itemprop("description")>>>>,
       <<<<SCls({"box_detail"}), Itemprop("description")>>>>,
       <<<<SCls({"box_detail"}), SCls({"box_section"})>>>>,
       <<<<SCls({"box_detail"}), STag("article")>>>>,
       <<<<SAttr({<<"id", "=", "offer-body">>})>>>>,
       << <<SCls({"oferta-detalle"})>>, <<SCls({"descripcion-oferta"})>> >>,
       << <<SCls({"descripcion"})>>, <<SCls({"description"})>>,
          <<SAttr({<<"id", "=", "description">>})>> >>,
       <<<<SCls({"job_desc"})>>>> >>

\* whether the first match of a candidate has more than 40 characters of text
LongMatch(m) == m # <<>> /\ Len(normText(TextContent(m[1]))) > MinDescriptionLen

\* the fallback container: its sanitized markup when the text is long enough
BroadHtml(html) ==
    IF Len(normText(cleanHtmlToText(html))) > MinDescriptionLen THEN html ELSE Null

BroadMatch(m) ==
    IF m = <<>> THEN Null ELSE BroadHtml(stripAttrsKeepTags(Serialize(m[1].kids)))

FirstLong(body, long) ==
    IF long # {}
    THEN stripAttrsKeepTags(Serialize(Select(body, DescriptionCandidates[Least(long)])[1].kids))
    ELSE BroadMatch(Select(body, Simple(<<SCls({"box_detail"}), SCls({"oferta"}),
                                          STag("main")>>)))

pickDescriptionHtml(body) ==
    FirstLong(body, {k \in 1..Len(DescriptionCandidates) :
                       LongMatch(Select(body, DescriptionCandidates[k]))})

\* ------------------------------------------------------------------------
\* extractJobDetail
\* ------------------------------------------------------------------------

TitleSelectors ==
    << <<<<SClsSub("title_offer")>>>>, <<<<SCls({"title_offer"})>>>>,
       <<<<Sel("h1", {}, "title", {}, Null)>>>>, <<<<Sel("h1", {"fs21"}, "", {}, Null)>>>>,
       <<<<SCls({"box_title"}), STag("h1")>>>>, <<<<STag("h1")>>>> >>

MinTitleLen == 3

titleCands(body) ==
    [k \in 1..Len(TitleSelectors) |->
        CandLonger(Probe(body, TitleSelectors[k]).hit,
                   normText(Probe(body, TitleSelectors[k]).text), MinTitleLen)]

CompanySelectors ==
    << <<<<SCls({"box_header"}), HrefHas("/empresas/")>>>>,
       <<<<SCls({"box_header"}), HrefHas("/empresa")>>>>,
       <<<<Sel("a", {"dIB", "mr10"}, "", {}, Null)>>>>,
       <<<<Sel("a", {}, "mr10", {}, Null)>>>>,
       <<<<SCls({"box_header"}), SCls({"fc_base"}), STag("a")>>>>,
       <<<<Itemprop("hiringOrganization"), Itemprop("name")>>>> >>

MinCompanyLen == 1

\* the selector loop of the company, then the candidates of pickCompanyFromDom
companyCands(body) ==
    [k \in 1..Len(CompanySelectors) |->
        CandLonger(Probe(body, CompanySelectors[k]).hit,
                   cleanCompanyName(Probe(body, CompanySelectors[k]).text), MinCompanyLen)]
    \o pickCompanyCands(body)

LocationSelectors ==
    << <<<<SCls({"fs16", "mb5"})>>>>, <<<<SClsSub("mb5")>>>>,
       <<<<SCls({"box_header"}), Sel("p", {"fs16"}, "", {}, Null)>>>>,
       <<<<SCls({"box_header"}), STag("p")>>>>,
       <<<<Itemprop("jobLocation"), Itemprop("addressLocality")>>>>,
       <<<<PContains(Chars("Ubicaci") \o OAcute \o Chars("n"))>>>> >>

MinLocationLen == 2

\* txt.replace(/Ubicaci..n:?/gi, '').replace(/\s*-\s*Publicado.*$/i, '')
\*    .replace(/Ver mapa/gi, '').replace(/Postular.*/i, '').trim()
CleanLocation(txt) ==
    Trim(CutFromCI(
            RemoveAllCI(
               CutDashPublicado(RemoveAllCI(txt, Chars("ubicaci") \o OAcute \o Chars("n"), ":")),
               Chars("ver mapa"), ""),
            Chars("postular")))

\* the selector loop of the location, then pickLocation($, null)
locationCands(body) ==
    [k \in 1..Len(LocationSelectors) |->
        CandLonger(Probe(body, LocationSelectors[k]).hit,
                   CleanLocation(normText(Probe(body, LocationSelectors[k]).text)),
                   MinLocationLen)]
    \o <<CandTruthy(pickLocation(body, Null))>>

DateSelectors ==
    << <<<<SCls({"fc_aux", "fs13", "mtB"})>>>>, <<<<SClsSub("fc_aux")>>>>,
       <<<<SCls({"box_header"}), SCls({"fc_aux"})>>>>,
       <<<<Sel("p", {"fs13"}, "", {}, Null)>>>>,
       <<<<PContains(Chars("Publicado"))>>>>, <<<<PContains(Chars("hace"))>>>> >>

DateLabels == << {Chars("publicado")}, {Chars("publicada")}, {Chars("fecha")} >>

\* const iso = parseSpanishRelativeDateToISO(txt); datePosted = iso || txt;
OrText(iso, txt) == IF Truthy(iso) THEN iso ELSE txt

IsoOrText(txt, clock) == OrText(parseSpanishRelativeDateToISO(txt, clock), txt)

\* if (txt && (txt.includes('hace') || txt.includes('Publicado'))) ...
DateCand(hit, txt, clock) ==
    Cand(/\ hit /\ txt # <<>>
         /\ Includes(txt, Chars("hace")) \/ Includes(txt, Chars("Publicado")),
         IsoOrText(txt, clock))

\* if (rel) datePosted = parseSpanishRelativeDateToISO(rel) || rel
RelCand(rel, clock) == Cand(Truthy(rel), IsoOrText(rel, clock))

dateCands(body, clock) ==
    [k \in 1..Len(DateSelectors) |->
        DateCand(Probe(body, DateSelectors[k]).hit,
                 normText(Probe(body, DateSelectors[k]).text), clock)]
    \o <<RelCand(extractLabeledValue(body, DateLabels), clock)>>

TypeSelectors ==
    << <<<<SCls({"dFlex", "mb10"})>>>>, <<<<SClsSub("dFlex")>>>>,
       <<<<PContains(Chars("Jornada"))>>>>, <<<<PContains(Chars("Tiempo completo"))>>>>,
       <<<<PContains(Chars("Tiempo parcial"))>>>> >>

TypeLabels == << {Chars("jornada")}, {Chars("tipo de contrato")}, {Chars("modalidad")} >>

MinTypeLen == 3

typeCands(body) ==
    [k \in 1..Len(TypeSelectors) |->
        CandLonger(Probe(body, TypeSelectors[k]).hit,
                   Trim(StripTypePrefix(normText(Probe(body, TypeSelectors[k]).text))),
                   MinTypeLen)]
    \o <<CandTruthy(extractLabeledValue(body, TypeLabels))>>

SalaryLabels ==
    << {Chars("salario")}, {Chars("sueldo")},
       OClass(Chars("compensaci"), Chars("n")), OClass(Chars("remuneraci"), Chars("n")) >>

\* jsonLd.x ? f(jsonLd.x) : null, then the DOM candidates when that is falsy
Resolve(structured, cands) ==
    IF Truthy(structured) THEN structured ELSE FirstAccepted(cands)

DescSelectors ==
    << <<<<SClsSub("t_word_wrap")>>>>, <<<<SCls({"fs16", "t_word_wrap"})>>>>,
       <<<<Itemprop("description")>>>>, <<<<SCls({"box_detail"})>>>>,
       <<<<SCls({"box_section"})>>>>, <<<<Sel("article", {"oferta"}, "", {}, Null)>>>>,
       <<<<SAttr({<<"id", "=", "offer-body">>})>>>> >>

\* a description: the html and text variables of the DESCRIPTION section
Desc(html, text) == [html |-> html, text |-> text]

NoDesc == Desc(Null, Null)

\* the structured-data branch
\* if (sanitized && normText(cleanHtmlToText(sanitized)).length > 40) { ... }
SanitizedDesc(sanitized) ==
    IF Truthy(sanitized) /\ Len(normText(cleanHtmlToText(sanitized))) > MinDescriptionLen
    THEN Desc(sanitized, cleanHtmlToText(sanitized))
    ELSE NoDesc

descFromJsonLd(raw) ==
    IF Truthy(raw) /\ JsLen(normText(raw)) > MinDescriptionLen
    THEN SanitizedDesc(stripAttrsKeepTags(raw))
    ELSE NoDesc

\* $temp(...).remove() twice, then stripAttrsKeepTags($temp.root().html())
CleanedOf(html) ==
    stripAttrsKeepTags(Serialize(
        Remove(
          Remove(cheerioLoad(html),
                 Simple(<<SCls({"hide"}),
                          SAttr({<<"data-offers-grid-detail-container-error", "has", "">>}),
                          SAttr({<<"data-complaint-overlay", "has", "">>}),
                          SCls({"popup"}),
                          SAttr({<<"id", "=", "complaint-popup-container">>}),
                          SAttr({<<"aria-hidden", "=", "true">>})>>)),
          Simple(<<STag("script"), STag("style"), STag("noscript"), STag("iframe"),
                   STag("form"), STag("button")>>))))

\* if (cleaned && txt && normText(txt).length > 40) { ...; break; }
CleanedCand(cleaned, txt) ==
    IF Truthy(cleaned) /\ Truthy(txt) /\ Len(normText(txt)) > MinDescriptionLen
    THEN Cand(TRUE, Desc(cleaned, txt))
    ELSE Cand(FALSE, NoDesc)

CleanedDesc(cleaned) == CleanedCand(cleaned, cleanHtmlToText(cleaned))

\* if (html && normText(cheerioLoad(html).text()).length > 40) { ... }
HtmlCand(html) ==
    IF html # <<>> /\ Len(normText(ForestText(cheerioLoad(html)))) > MinDescriptionLen
    THEN CleanedDesc(CleanedOf(html))
    ELSE Cand(FALSE, NoDesc)

\* if (descEl.length) { let html = descEl.html(); ... }
ElCand(descEl) ==
    IF descEl # <<>> THEN HtmlCand(Serialize(descEl[1].kids)) ELSE Cand(FALSE, NoDesc)

\* one round of the loop over descSelectors
descCand(body, group) == ElCand(Select(body, group))

FirstDesc(cands) ==
    IF \E k \in 1..Len(cands) : cands[k].ok THEN FirstAccepted(cands) ELSE NoDesc

descFromDom(body) ==
    FirstDesc([k \in 1..Len(DescSelectors) |-> descCand(body, DescSelectors[k])])

\* if (html) { description_html = html; description_text = cleanHtmlToText(html); }
PickedDesc(html) == IF Truthy(html) THEN Desc(html, cleanHtmlToText(html)) ELSE NoDesc

\* the final fallback
descFromPick(body) == PickedDesc(pickDescriptionHtml(body))

ContentTagPrefixes == {"<p", "<ul", "<li", "<a", "<strong", "<em", "<br", "<h3", "<h4"}

\* /{.*}/.test(html) && !/<(p|ul|li|a|strong|em|br|h3|h4)/i.test(html)
IsCssOnly(html) ==
    /\ \E i \in 1..Len(html) : \E j \in (i + 1)..Len(html) :
          /\ html[i] = "{" /\ html[j] = "}"
          /\ \A k \in i..j : html[k] # "\n"
    /\ ~\E i \in 1..Len(html) :
          /\ IsOpen(html[i])
          /\ \E pre \in ContentTagPrefixes :
                Len(html[i]) >= Len(pre) /\ SubSeq(html[i], 1, Len(pre)) = pre

\* the guard against a capture of style rules only
CssGuard(d) == IF Truthy(d.html) /\ IsCssOnly(d.html) THEN NoDesc ELSE d

\* if (!description_html) { ... }
OrElseDesc(a, b) == IF Truthy(a.html) THEN a ELSE b

extractDescription(jsonLd, body) ==
    CssGuard(OrElseDesc(OrElseDesc(descFromJsonLd(jsonLd.description_raw), descFromDom(body)),
                        descFromPick(body)))

\* if (scraped) salary_text = normText(scraped)
NormOrNull(scraped) == IF Truthy(scraped) THEN normText(scraped) ELSE Null

\* the labelled salary text, whatever the structured data gave
SalaryTextAlways(salary_struct, body) ==
    NormOrNull(extractLabeledValue(body, SalaryLabels))

\* let salary_text = null; if (!salary_struct) { scraped = ...; if (scraped) ... }
SalaryTextOf(salary_struct, body) ==
    IF salary_struct.isNull THEN SalaryTextAlways(salary_struct, body) ELSE Null

\* the local variables of extractJobDetail when it reaches BUILD JOB OBJECT
LocalsOf(jsonLd, body, clock, desc) ==
    [jsonLd |-> jsonLd,
     title |-> Resolve((IF Truthy(jsonLd.title) THEN normText(jsonLd.title) ELSE Null),
                       titleCands(body)),
     company |-> Resolve((IF Truthy(jsonLd.company) THEN cleanCompanyName(jsonLd.company)
                          ELSE Null), companyCands(body)),
     location |-> Resolve((IF Truthy(jsonLd.location) THEN normText(jsonLd.location)
                           ELSE Null), locationCands(body)),
     datePosted |-> Resolve(jsonLd.datePosted, dateCands(body, clock)),
     employmentType |->
         Resolve((IF jsonLd.employmentType.isNull THEN Null
                  ELSE Join(FilterTruthy(jsonLd.employmentType.v), <<",", " ">>)),
                 typeCands(body)),
     salary_struct |-> jsonLd.salary_struct,
     salary_text |-> SalaryTextOf(jsonLd.salary_struct, body),
     description_html |-> desc.html,
     description_text |-> desc.text]

LocalsFrom(jsonLd, body, clock) ==
    LocalsOf(jsonLd, body, clock, extractDescription(jsonLd, body))

ExtractLocals(d, clock) == LocalsFrom(extractFromJsonLd(d.ld), d.body, clock)

\* only the text representation copied to the record
SalaryKeysTextOnly(salary_struct, salary_text) ==
    IF Truthy(salary_text) THEN {"salary_text"} ELSE {}

\* if (salary_struct) Object.assign(job, salary_struct);
\* else if (salary_text) job.salary_text = salary_text;
\* the salary keys the record gets
SalaryKeys(salary_struct, salary_text) ==
    IF ~salary_struct.isNull THEN salary_struct.has
    ELSE IF Truthy(salary_text) THEN {"salary_text"} ELSE {}

\* const job = {...}; the record (has lists the salary keys on it)
JobWith(l, keys, st) ==
       [title |-> OrNull(l.title), company |-> OrNull(l.company),
        location |-> OrNull(l.location), datePosted |-> OrNull(l.datePosted),
        description_html |-> OrNull(l.description_html),
        description_text |-> OrNull(l.description_text),
        employmentType |-> OrNull(l.employmentType),
        has |-> keys,
        salary_currency |-> IF "salary_currency" \in keys THEN st.salary_currency ELSE Null,
        salary_period |-> IF "salary_period" \in keys THEN st.salary_period ELSE Null,
        salary_min |-> IF "salary_min" \in keys THEN st.salary_min ELSE NoNum,
        salary_max |-> IF "salary_max" \in keys THEN st.salary_max ELSE NoNum,
        salary_amount |-> IF "salary_amount" \in keys THEN st.salary_amount ELSE NoNum,
        salary_text |-> IF "salary_text" \in keys THEN l.salary_text ELSE Null]

BuildJob(l) == JobWith(l, SalaryKeys(l.salary_struct, l.salary_text), l.salary_struct)

extractJobDetail(d, clock) == BuildJob(ExtractLocals(d, clock))

\* ------------------------------------------------------------------------
\* The older actor (src/unnamed/part_001): its extraction
\* ------------------------------------------------------------------------

\* cleanHtmlToText of the older actor: '' for no html, and only script, style
\* and noscript are dropped
cleanHtmlToTextOld(html) ==
    IF ~Truthy(html) THEN <<>>
    ELSE LET d == Remove(cheerioLoad(html),
                         Simple(<<STag("script"), STag("style"), STag("noscript")>>))
         IN Trim(CollapseWs(ForestText(d)))

\* the items loop of extractJsonLd inside its try: the first JobPosting item,
\* or nothing when the items run out or a null item makes the read throw
RECURSIVE FirstJobItem(_)
FirstJobItem(items) ==
    IF items = <<>> THEN NullItem
    ELSE IF Head(items).isNull THEN NullItem
    ELSE IF IsJob(Head(items)) THEN Head(items)
    ELSE FirstJobItem(Tail(items))

\* extractJsonLd: .html() reads the first script block only
extractJsonLd(blocks) ==
    IF blocks = <<>> \/ blocks[1].kind # "json" THEN NullItem
    ELSE FirstJobItem(blocks[1].items)

\* extractJobDetail of the older actor
extractJobDetailOld(d) ==
    LET item == extractJsonLd(d.ld)
        ld(v) == IF item.isNull THEN Null ELSE OrNull(v)
        first(group) == Trim(Probe(d.body, group).text)
        descEl == Select(d.body, <<<<SCls({"box_detail"})>>, <<SClsSub("job-description")>>,
                                     <<SCls({"job_desc"})>>>>)
        description == IF Truthy(ld(item.description)) THEN item.description
                       ELSE IF descEl # <<>> THEN Serialize(descEl[1].kids) ELSE Null
        addr == IF item.jobLocation.k = "obj" THEN item.jobLocation.v[1] ELSE Addr(Null, Null, Null)
    IN [title |-> OrNull(FirstTruthy(ld(FirstTruthy(item.title, item.name)),
                                     first(<<<<STag("h1")>>, <<SCls({"box_title"}), STag("h1")>>,
                                             <<SClsSub("title")>>>>))),
        company |-> OrNull(FirstTruthy(ld(item.orgName),
                                       first(<<<<SCls({"fc_base"}), STag("a")>>,
                                               <<SClsSub("company")>>>>))),
        location |-> OrNull(FirstTruthy(
                        (IF item.isNull THEN Null
                         ELSE FirstTruthy(addr.addressLocality, addr.addressRegion)),
                        first(<<<<SCls({"box_header"}), STag("p")>>, <<SClsSub("location")>>>>))),
        description_html |-> description,
        description_text |-> IF Truthy(description) THEN cleanHtmlToTextOld(description)
                             ELSE Null,
        datePosted |-> ld(item.datePosted)]

\* ------------------------------------------------------------------------
\* Documents of the runs
\* ------------------------------------------------------------------------

\* a text of more than 40 characters
LongText == Chars("Se busca vendedor con experiencia en ventas al detalle")

Mexico == Chars("Ciudad de M") \o <<"e'">> \o Chars("xico")

JobFull ==
    [BlankItem EXCEPT
        !.atType = TypeStr("JobPosting"),
        !.title = Chars("Asesor de Ventas"),
        !.orgName = Chars("Empresa XYZ"),
        !.datePosted = Chars("2024-01-15"),
        !.description = <<"<p class=\"intro\">">> \o LongText \o <<"</p>">>,
        !.jobLocation = OneLoc(Addr(Mexico, Null, Null)),
        !.baseSalary = ObjSalary("MonetaryAmount", Chars("MXN"), Null, NoNum, NoNum,
                                 ObjValue(Num(10), Num(20), NoNum, Chars("MONTH"))),
        !.employmentType = StrEmp(Chars("FULL_TIME"))]

JobB == [BlankItem EXCEPT !.atType = TypeStr("JobPosting"), !.title = Chars("Chofer")]

\* a posting typed through the key type only
JobTypeOnly == [BlankItem EXCEPT !.type = TypeStr("JobPosting"), !.title = Chars("Mesero")]

JobArrType ==
    [BlankItem EXCEPT !.atType = TypeArr(<<"Thing", "JobPosting">>), !.name = Chars("Cajero"),
                      !.datePosted = Chars("ayer"),
                      !.employmentType = ArrEmp(<<Chars("PART_TIME"), <<>>, Chars("TEMPORARY")>>)]

\* a posting whose values are blanks
JobBlank ==
    [BlankItem EXCEPT
        !.atType = TypeStr("JobPosting"),
        !.title = <<" ">>,
        !.orgName = <<" ", " ">>,
        !.datePosted = <<" ", " ">>,
        !.description = <<" ">>,
        !.jobLocation = OneLoc(Addr(<<" ">>, Null, Null)),
        !.employmentType = StrEmp(<<" ">>)]

OrgItem == [BlankItem EXCEPT !.atType = TypeStr("Organization"), !.name = Chars("Acme")]

\* an organization that also carries the key type
OrgTypedJob ==
    [BlankItem EXCEPT !.atType = TypeStr("Organization"), !.type = TypeStr("JobPosting"),
                      !.name = Chars("Sastre")]

\* the script blocks the documents are made of
Blocks ==
    { MalformedBlock, EmptyBlock, JsonBlock(<<NullItem, JobFull>>), JsonBlock(<<JobB>>),
      JsonBlock(<<OrgTypedJob>>), JsonBlock(<<JobTypeOnly>>), JsonBlock(<<OrgItem, JobArrType>>) }

\* the longest sequence of script blocks of a document
MaxBlocks == 2

RECURSIVE BlockSeqs(_)
BlockSeqs(n) ==
    IF n = 0 THEN {<<>>}
    ELSE LET shorter == BlockSeqs(n - 1)
         IN shorter \cup {Append(q, b) : q \in {x \in shorter : Len(x) = n - 1}, b \in Blocks}

BodyEmpty == <<>>

BodyFull ==
    ParseHtml(
        <<"<div class=\"box_header\">", "<h1 class=\"title_offer\">">> \o Chars("Vendedor")
        \o <<"</h1>", "<a href=\"/empresas/acme\">">> \o Chars("Acme SA 4.5")
        \o <<"</a>", "<p class=\"fs16 mb5\">">> \o Chars("Monterrey - Publicado hoy")
        \o <<"</p>", "<p class=\"fc_aux fs13 mtB\">">> \o Chars("Publicado hace 3 horas")
        \o <<"</p>", "</div>", "<div class=\"dFlex mb10\">">> \o Chars("Jornada: Tiempo completo")
        \o <<"</div>", "<ul>", "<li>">> \o Chars("Salario: 10 mil")
        \o <<"</li>", "</ul>", "<div class=\"box_detail\">", "<div class=\"fs16 t_word_wrap\">",
             "<p>">> \o LongText \o <<"</p>", "</div>", "</div>">>)

\* two headings: the one in the box comes first in the document, the one
\* with the template class second
BodyTwoTitles ==
    ParseHtml(
        <<"<div class=\"box_title\">", "<h1>">> \o Chars("Gerente regional")
        \o <<"</h1>", "</div>", "<h1 class=\"title_offer\">">> \o Chars("Vendedor")
        \o <<"</h1>">>)

BodyShortTitle ==
    ParseHtml(
        <<"<h1 class=\"title_offer\">">> \o Chars("Ab") \o <<"</h1>", "<div class=\"box_title\">",
          "<h1 class=\"fs21\">">> \o Chars("Cajero general") \o <<"</h1>", "</div>">>)

BodyDateLiteral ==
    ParseHtml(
        <<"<h1>">> \o Chars("Cajero") \o <<"</h1>", "<p class=\"fc_aux fs13 mtB\">">>
        \o Chars("Publicado ayer") \o <<"</p>">>)

BodyDateDays ==
    ParseHtml(
        <<"<h1>">> \o Chars("Cajero") \o <<"</h1>", "<p>">>
        \o Chars("Publicado hace 3 d") \o <<"i'">> \o Chars("as") \o <<"</p>">>)

BodySalaryDd ==
    ParseHtml(
        <<"<h1>">> \o Chars("Cajero") \o <<"</h1>", "<dl>", "<dt>">> \o Chars("Sueldo")
        \o <<"</dt>", "<dd>">> \o Chars("12000 MXN") \o <<"</dd>", "<dt>">> \o Chars("Fecha")
        \o <<"</dt>", "<dd>">> \o Chars("2024-02-30") \o <<"</dd>", "</dl>">>)

\* a description whose only text sits in a form
BodyDescForm ==
    ParseHtml(
        <<"<div itemprop=\"description\">", "<form>">> \o LongText
        \o <<"</form>", "<br>", "</div>">>)

BodyMicrodata ==
    ParseHtml(
        <<"<div itemprop=\"hiringOrganization\">", "<span itemprop=\"name\">">>
        \o Chars("Beta | Seguir") \o <<"</span>", "</div>", "<div itemprop=\"jobLocation\">",
             "<span itemprop=\"addressLocality\">">> \o Chars("Le") \o <<"</span>", "</div>",
             "<ul>", "<li>", "<span>">> \o Chars("Modalidad") \o <<"</span>", "<span>">>
        \o Chars("Remoto") \o <<"</span>", "</li>", "</ul>">>)

BodyChips ==
    ParseHtml(
        <<"<ul>", "<li>">> \o Chars("Ciudad: Puebla | MX") \o <<"</li>", "<li>">>
        \o Chars("Sueldo 9000") \o <<"</li>", "</ul>", "<div class=\"box_detail\">", "<style>">>
        \o Chars("p{color:red}") \o <<"</style>", "</div>">>)

\* a description container with nothing in it
BodyEmptyDetail ==
    ParseHtml(<<"<h1>">> \o Chars("Cajero") \o <<"</h1>", "<div class=\"box_detail\">", "</div>">>)

\* the location paragraph of the template followed by the legal notice link
BodyLocationLegal ==
    ParseHtml(
        <<"<h1>">> \o Chars("Cajero") \o <<"</h1>", "<p class=\"fs16 mb5\">">>
        \o Chars("Puebla, Puebla Ver detalle legal") \o <<"</p>">>)

\* a labelled city followed by the map link
BodyLocationMap ==
    ParseHtml(
        <<"<h1>">> \o Chars("Cajero") \o <<"</h1>", "<ul>", "<li>">>
        \o Chars("Ciudad: Puebla Ver mapa") \o <<"</li>", "</ul>">>)

Bodies ==
    { BodyEmpty, BodyFull, BodyTwoTitles, BodyShortTitle, BodyDateLiteral, BodyDateDays,
      BodySalaryDd, BodyDescForm, BodyMicrodata, BodyChips, BodyEmptyDetail,
      BodyLocationLegal, BodyLocationMap }

PageTitle == Chars("Empleo | Computrabajo")

\* the documents extraction is run on: every sequence of script blocks over
\* two of the bodies, and every body under four of the sequences
Docs ==
    {Doc(PageTitle, ld, b) : ld \in BlockSeqs(MaxBlocks), b \in {BodyEmpty, BodyFull}}
    \cup {Doc(PageTitle, ld, b) :
             ld \in {<<>>, <<JsonBlock(<<JobFull>>)>>, <<JsonBlock(<<JobArrType>>)>>,
                     <<JsonBlock(<<JobBlank>>)>>},
             b \in Bodies}

\* the instants the clock can show when a page is processed
Nows == {Instant(2024, 3, 31, 10, 5)}

\* ------------------------------------------------------------------------
\* The router (src/main.js): page classification
\* ------------------------------------------------------------------------

IniciarSesion == Chars("iniciar sesi") \o OAcute \o Chars("n")

\* the signals both handlers test
BlockSignals(d) ==
    LET pageTitle == toLowerCase(d.title)
        bodyText == toLowerCase(ForestText(d.body))
    IN \/ Includes(pageTitle, Chars("sign in"))
       \/ Includes(pageTitle, IniciarSesion)
       \/ Includes(bodyText, Chars("continue with google"))
       \/ Includes(bodyText, IniciarSesion)
       \/ Includes(bodyText, Chars("crear cuenta"))
       \/ Select(d.body, <<<<Sel("input", {}, "", {<<"type", "=", "password">>}, Null)>>>>) # <<>>

\* a classifier that lets every page through
NeverBlocked(d) == FALSE

\* isBlockedOrRedirect of the default handler
isBlockedOrRedirectDefault(d) ==
    \/ BlockSignals(d)
    \/ Select(d.body, <<<<Sel("form", {}, "", {<<"action", "*=", "login">>}, Null)>>>>) # <<>>

\* isBlockedOrRedirect of the DETAIL handler
isBlockedOrRedirectDetail(d) == BlockSignals(d)

\* a check that takes every page for a job page
AnyContent(d) == TRUE

hasJobContent(d) ==
    \/ Select(d.body, <<<<STag("h1")>>>>) # <<>>
    \/ Select(d.body, <<<<SClsSub("title")>>>>) # <<>>
    \/ d.ld # <<>>

MaxTitleLen == 200

\* hasValidData of the DETAIL handler
hasValidDataDetail(j) ==
    /\ Truthy(j.title)
    /\ Len(j.title) < MaxTitleLen
    /\ ~Includes(toLowerCase(j.title), Chars("sign in"))
    /\ ~Includes(toLowerCase(j.title), Chars("job openings in"))
    /\ ~Includes(toLowerCase(j.title), Chars("crear cuenta"))

\* hasValidData of the default handler
hasValidDataDefault(j) ==
    hasValidDataDetail(j) /\ ~Includes(toLowerCase(j.title), IniciarSesion)

\* /\/oferta-|\/job\/|\/empleo\/|\/vacante\//i.test(request.url)
isDetail(url) ==
    \E part \in {"/oferta-", "/job/", "/empleo/", "/vacante/"} : HasSub(url, part)

\* the links enqueueLinks finds for the DETAIL label
DetailLinks(d) ==
    LET as == Select(d.body,
                     <<<<HrefHas("/oferta-")>>, <<HrefHas("/ofertas-")>>, <<HrefHas("/vacante-")>>,
                       <<HrefHas("/job/")>>, <<Sel("a", {"js-o-link"}, "", {}, Null)>>,
                       <<HrefHas("/empleo/")>>, <<HrefHas("/trabajo-")>>>>)
    IN {(CHOOSE a \in as[i].attrs : a[1] = "href")[2] : i \in 1..Len(as)}

\* the links of the pagination enqueueLinks
PaginationLinks(d) ==
    LET as == Select(d.body,
                     <<<<HrefHas("page=")>>, <<SCls({"pagination"}), STag("a")>>,
                       <<Sel("a", {"next"}, "", {}, Null)>>,
                       <<Sel("a", {}, "", {<<"rel", "=", "next">>}, Null)>>,
                       <<Sel("a", {"js-o-pager", "next"}, "", {}, Null)>>>>)
    IN {(CHOOSE a \in as[i].attrs : a[1] = "href")[2] : i \in 1..Len(as)}

\* ------------------------------------------------------------------------
\* The pages of the site a run crawls
\* ------------------------------------------------------------------------

Link(href, text) == <<href>> \o Chars(text) \o <<"</a>">>

PageList1 ==
    Doc(Chars("Empleos"), <<>>,
        ParseHtml(Link("<a href=\"/oferta-1\">", "Vendedor")
                  \o Link("<a href=\"?page=2\">", "Siguiente")))

PageList2 ==
    Doc(Chars("Empleos"), <<>>,
        ParseHtml(Link("<a href=\"/oferta-1\">", "Vendedor")
                  \o Link("<a href=\"/oferta-2\">", "Cajero")))

PageGood == Doc(PageTitle, <<>>, BodyDateLiteral)

PageGoodLd == Doc(PageTitle, <<JsonBlock(<<JobB>>)>>, BodyEmpty)

\* a login wall that also shows a heading
PageLogin ==
    Doc(Chars("Sign in"), <<>>,
        ParseHtml(<<"<h1>">> \o Chars("Accede a tu cuenta") \o <<"</h1>", "<form>",
                    "<input type=\"password\">", "</form>">>))

\* a page with no heading, no title class and no script block
PageBare == Doc(PageTitle, <<>>, ParseHtml(<<"<p>">> \o Chars("Nada") \o <<"</p>">>))

\* a page with a title box and no heading in it
PageUntitled == Doc(PageTitle, <<>>, ParseHtml(<<"<div class=\"box_title\">", "</div>">>))

\* a job heading next to a form that posts to the login endpoint
PageLoginForm ==
    Doc(PageTitle, <<>>,
        ParseHtml(<<"<h1>">> \o Chars("Chofer") \o <<"</h1>", "<form action=\"/login/submit\">",
                    "</form>">>))

\* the posting of a page whose structured data is titled after the login page
JobSesion ==
    [BlankItem EXCEPT !.atType = TypeStr("JobPosting"),
                      !.title = Chars("Iniciar sesi") \o <<"o'">> \o Chars("n")]

PageSesion == Doc(PageTitle, <<JsonBlock(<<JobSesion>>)>>, BodyEmpty)

Pages ==
    [id \in {"list1", "list2", "good", "goodLd", "login", "bare", "untitled", "loginForm",
             "sesion"} |->
        CASE id = "list1" -> PageList1 [] id = "list2" -> PageList2
          [] id = "good" -> PageGood [] id = "goodLd" -> PageGoodLd
          [] id = "login" -> PageLogin [] id = "bare" -> PageBare
          [] id = "loginForm" -> PageLoginForm
          [] id = "sesion" -> PageSesion
          [] OTHER -> PageUntitled]

\* what the site may answer for a URL
Serve ==
    [url \in {"/empleos", "?page=2", "/oferta-0", "/oferta-1", "/oferta-2"} |->
        CASE url = "/empleos" -> {"list1"}
          [] url = "?page=2" -> {"list2", "login"}
          [] url = "/oferta-0" -> {"good", "loginForm", "sesion", "bare"}
          [] url = "/oferta-1" -> {"good", "login"}
          [] OTHER -> {"goodLd", "bare", "untitled", "loginForm", "sesion"}]

\* the start URLs of the input
StartUrls == {"/empleos", "/oferta-0"}

\* ------------------------------------------------------------------------
\* The older actor (src/unnamed/part_001): links and pages of its runs
\* ------------------------------------------------------------------------

Origin == "https://mx.computrabajo.com"

\* $(el).attr(name): '' stands for undefined
Attr(n, name) ==
    IF \E a \in n.attrs : a[1] = name THEN (CHOOSE a \in n.attrs : a[1] = name)[2] ELSE ""

\* the null of a URL-valued result
NoUrl == ""

\* new URL(href, base).href for an href that is a path from the root or an
\* absolute URL of the site; null for no href
toAbsoluteUrl(href, base) ==
    IF href = "" THEN NoUrl
    ELSE IF SubSeq(href, 1, 1) = "/" THEN SubSeq(base, 1, Len(Origin)) \o href
    ELSE href

\* the elements of a sequence without repetition, in the order of their
\* first occurrence (insertion into a Set)
RECURSIVE Distinct(_)
Distinct(xs) ==
    IF xs = <<>> THEN <<>>
    ELSE LET front == Distinct(SubSeq(xs, 1, Len(xs) - 1))
             last == xs[Len(xs)]
         IN IF \E i \in 1..Len(front) : front[i] = last THEN front ELSE Append(front, last)

\* findJobLinks: the links of the job cards whose href matches /\/trabajo-de-/i
findJobLinks(d, pageUrl) ==
    LET els == Select(d.body,
                      <<<<Sel("", {"js-o-link", "fc_base"}, "", {}, Null)>>,
                        <<SCls({"js-o-link"})>>,
                        <<SAttr({<<"data-js-job-link", "has", "">>})>>,
                        <<HrefHas("/trabajo-de-")>>>>)
        hrefs == SelectSeq([i \in 1..Len(els) |-> Attr(els[i], "href")],
                           LAMBDA h : h # "" /\ HasSub(h, "/trabajo-de-"))
        abs == [i \in 1..Len(hrefs) |-> toAbsoluteUrl(hrefs[i], pageUrl)]
    IN Distinct(SelectSeq(abs, LAMBDA u : u # NoUrl))

NextPageSelectors ==
    << <<Sel("a", {"js-o-pager", "next"}, "", {}, Null)>>,
       <<Sel("a", {}, "", {<<"rel", "=", "next">>}, Null)>>,
       <<Sel("a", {}, "", {<<"aria-label", "*=", "siguiente">>}, Null)>>,
       <<Sel("a", {"pagination__next"}, "", {}, Null)>> >>

\* the href of the first match of one selector ('' when there is none)
FirstHref(d, chain) ==
    LET m == Select(d.body, <<chain>>) IN IF m = <<>> THEN "" ELSE Attr(m[1], "href")

\* findNextPage: the first selector whose first match has an href decides
findNextPage(d, pageUrl) ==
    LET hits == {k \in 1..Len(NextPageSelectors) : FirstHref(d, NextPageSelectors[k]) # ""}
    IN IF hits = {} THEN NoUrl
       ELSE toAbsoluteUrl(FirstHref(d, NextPageSelectors[Least(hits)]), pageUrl)

\* Array.prototype.slice(0, end): a negative end counts from the end
Slice0(xs, end) ==
    SubSeq(xs, 1, IF end < 0 THEN Greatest({0, Len(xs) + end}) ELSE Least({Len(xs), end}))

OldList(links) == Doc(Chars("Empleos"), <<>>, ParseHtml(links))

\* page 1 of the listing a: two job cards and a pager link
OldListA1 ==
    OldList(Link("<a class=\"js-o-link\" href=\"/trabajo-de-a/j1\">", "Vendedor")
            \o Link("<a class=\"js-o-link\" href=\"/trabajo-de-a/j2\">", "Cajero")
            \o Link("<a class=\"js-o-link\">", "Anuncio")
            \o Link("<a class=\"js-o-pager next\" href=\"/empleos-a-p2\">", "Siguiente"))

\* page 2 of the listing a: a job card of page 1 again, and a next link whose
\* address is under /trabajo-de-
OldListA2 ==
    OldList(Link("<a class=\"js-o-link\" href=\"/trabajo-de-a/j2\">", "Cajero")
            \o Link("<a rel=\"next\" href=\"/trabajo-de-a?p=3\">", "Siguiente"))

\* page 3 of the listing a: nothing on it
OldListA3 == OldList(<<>>)

\* the listing b: one job card, of a job the listing a shows too
OldListB1 == OldList(Link("<a class=\"js-o-link\" href=\"/trabajo-de-a/j1\">", "Vendedor"))

OldPages ==
    [id \in {"a1", "a2", "a3", "b1", "job", "untitled"} |->
        CASE id = "a1" -> OldListA1 [] id = "a2" -> OldListA2 [] id = "a3" -> OldListA3
          [] id = "b1" -> OldListB1 [] id = "job" -> PageGood
          [] OTHER -> PageBare]

OldUrl(path) == Origin \o path

\* what the site answers for the URLs of the older actor's runs
OldServe ==
    [url \in {OldUrl("/trabajo-de-a"), OldUrl("/empleos-a-p2"), OldUrl("/trabajo-de-a?p=3"),
              OldUrl("/trabajo-de-b"), OldUrl("/trabajo-de-a/j1"), OldUrl("/trabajo-de-a/j2")} |->
        CASE url = OldUrl("/trabajo-de-a") -> {"a1"}
          [] url = OldUrl("/empleos-a-p2") -> {"a2"}
          [] url = OldUrl("/trabajo-de-a?p=3") -> {"a3"}
          [] url = OldUrl("/trabajo-de-b") -> {"b1"}
          [] url = OldUrl("/trabajo-de-a/j1") -> {"job"}
          [] OTHER -> {"job", "untitled"}]

\* the start URLs an input can name
OldStartUrls == {OldUrl("/trabajo-de-a"), OldUrl("/trabajo-de-b")}

\* ------------------------------------------------------------------------
\* State
\* ------------------------------------------------------------------------

VARIABLES
    doc,                \* the document handed to extractJobDetail
    now,                \* the clock reading during the call
    pc,                 \* where the extraction stands: "page", "main", "old"; "run" in a crawl
    locals,             \* the locals of extractJobDetail when it builds the record
    job,                \* the record extractJobDetail returned
    oldJob,             \* the record the older actor's extractJobDetail returned
    maxResultsDesired,  \* main.js global
    totalJobsSaved,     \* main.js global
    maxConcurrency,     \* crawler option
    maxRequestRetries,  \* crawler option
    queue,              \* requests waiting in the RequestQueue
    seen,               \* URLs the RequestQueue has ever been given
    running,            \* handler invocations suspended at an await: the request, the
                        \* page served, the await reached, the checks passed so far
    dataset,            \* records stored in the dataset, in order, each with the
                        \* request and page it came from and the checks its handler passed
    failed,             \* URLs given to failedRequestHandler
    MAX_RESULTS,        \* older actor: the limits and switches it derives from its input
    MAX_PAGES,
    MAX_CONCURRENCY,
    collectDetails,
    totalSaved,         \* older actor: its three globals
    urlsVisited,
    jobUrlsEnqueued,
    oldQueue,           \* older actor: requests waiting in its request queue
    oldSeen,            \* older actor: URLs its request queue has ever been given
    oldRunning,         \* older actor: handler invocations suspended at an await: the
                        \* request, the page served, the await reached, the URLs in hand
    oldDataset,         \* older actor: records stored in the dataset, in order
    logged,             \* older actor: requests whose handler logged 'Error: ...'
    handled,            \* older actor: requests whose handler returned normally
    enqueueCalls,       \* older actor: the enqueueLinks calls that resolved
    call                \* a helper called on its own: the helper, its argument, and
                        \* what each call made so far returned

vars == <<doc, now, pc, locals, job, oldJob, maxResultsDesired, totalJobsSaved, maxConcurrency,
          maxRequestRetries, queue, seen, running, dataset, failed,
          MAX_RESULTS, MAX_PAGES, MAX_CONCURRENCY, collectDetails, totalSaved, urlsVisited,
          jobUrlsEnqueued, oldQueue, oldSeen, oldRunning, oldDataset, logged, handled,
          enqueueCalls, call>>

callVars == <<call>>

NoCall == [fn |-> "", arg |-> <<>>, ret |-> <<>>]

oldVars == <<MAX_RESULTS, MAX_PAGES, MAX_CONCURRENCY, collectDetails, totalSaved, urlsVisited,
             jobUrlsEnqueued, oldQueue, oldSeen, oldRunning, oldDataset, logged, handled,
             enqueueCalls>>

\* the older actor before it has read its input
OldIdle ==
    /\ MAX_RESULTS = 1 /\ MAX_PAGES = 1 /\ MAX_CONCURRENCY = 1 /\ collectDetails = TRUE
    /\ totalSaved = 0 /\ urlsVisited = {} /\ jobUrlsEnqueued = {}
    /\ oldQueue = {} /\ oldSeen = {} /\ oldRunning = {} /\ oldDataset = <<>>
    /\ logged = {} /\ handled = {} /\ enqueueCalls = {}

extractVars == <<doc, now, pc, locals, job, oldJob>>

crawlVars == <<maxResultsDesired, totalJobsSaved, maxConcurrency, maxRequestRetries, queue, seen,
               running, dataset, failed>>

NoDoc == Doc(<<>>, <<>>, <<>>)

\* before extractJobDetail has run there are no locals and no record
NoLocals == [jsonLd |-> NoJsonLd]

NoJob == [title |-> Null]

NoOldJob == [title |-> Null]

\* the extraction and the crawler of main.js at rest
MainIdle ==
    /\ doc = NoDoc /\ locals = NoLocals /\ job = NoJob /\ oldJob = NoOldJob
    /\ maxResultsDesired = 1 /\ totalJobsSaved = 0 /\ maxConcurrency = 1
    /\ maxRequestRetries = 0 /\ queue = {} /\ seen = {} /\ running = {}
    /\ dataset = <<>> /\ failed = {}

\* ------------------------------------------------------------------------
\* Extraction of one document
\* ------------------------------------------------------------------------

InitExtract ==
    /\ doc \in Docs
    /\ now \in Nows
    /\ pc = "page"
    /\ locals = NoLocals
    /\ job = NoJob
    /\ oldJob = NoOldJob
    /\ maxResultsDesired = 1000
    /\ totalJobsSaved = 0
    /\ maxConcurrency = 1
    /\ maxRequestRetries = 0
    /\ queue = {}
    /\ seen = {}
    /\ running = {}
    /\ dataset = <<>>
    /\ failed = {}
    /\ OldIdle
    /\ call = NoCall

\* extractJobDetail of main.js runs on the document
ExtractDetail ==
    /\ pc = "page"
    /\ locals' = ExtractLocals(doc, now)
    /\ job' = BuildJob(locals')
    /\ pc' = "main"
    /\ UNCHANGED <<doc, now, oldJob>>
    /\ UNCHANGED crawlVars
    /\ UNCHANGED oldVars
    /\ UNCHANGED callVars

\* extractJobDetail of the older actor runs on the document
ExtractDetailOld ==
    /\ pc = "page"
    /\ oldJob' = extractJobDetailOld(doc)
    /\ pc' = "old"
    /\ UNCHANGED <<doc, now, locals, job>>
    /\ UNCHANGED crawlVars
    /\ UNCHANGED oldVars
    /\ UNCHANGED callVars

NextExtract == ExtractDetail \/ ExtractDetailOld

SpecExtract == InitExtract /\ [][NextExtract]_vars

\* ------------------------------------------------------------------------
\* A run of the crawler (src/main.js)
\* ------------------------------------------------------------------------

\* the largest results_wanted of the input
MaxResults == 2

\* the largest maxConcurrency of the input
MaxConcurrency == 2

\* the largest maxRequestRetries of the input
MaxRetries == 1

DefaultResultsWanted == 50

\* Math.max(1, Math.floor(Number(results_wanted) || 50))
ResultsLimit(results_wanted) ==
    LET n == IF results_wanted = 0 THEN DefaultResultsWanted ELSE results_wanted
    IN IF n < 1 THEN 1 ELSE n

Request(url, label, retry) == [url |-> url, label |-> label, retry |-> retry]

Outcome(kind, passed) == [kind |-> kind, passed |-> passed]

\* what the handlers compute from each page of the site at each instant: the
\* two isBlockedOrRedirect, hasJobContent, the record of extractJobDetail, the
\* two hasValidData and the links the two enqueueLinks select
FactsOf(d, j) ==
    [blockedDefault |-> isBlockedOrRedirectDefault(d),
     blockedDetail |-> isBlockedOrRedirectDetail(d),
     hasJobContent |-> hasJobContent(d),
     job |-> j,
     validDefault |-> hasValidDataDefault(j),
     validDetail |-> hasValidDataDetail(j),
     detailLinks |-> DetailLinks(d),
     paginationLinks |-> PaginationLinks(d)]

\* the same table for an extraction that looks at the counter of the run
\* and leaves the date out once a record has been saved
OnPageCounting ==
    [p \in DOMAIN Pages, n \in Nows |->
        LET j == extractJobDetail(Pages[p], n)
        IN FactsOf(Pages[p], IF totalJobsSaved > 0 THEN [j EXCEPT !.datePosted = Null] ELSE j)]

OnPage == [p \in DOMAIN Pages, n \in Nows |-> FactsOf(Pages[p], extractJobDetail(Pages[p], n))]

\* the default handler up to its first await, return or throw
DefaultHandlerRun(url, on, total, max) ==
    IF on.blockedDefault THEN Outcome("throw", <<>>)
    ELSE IF isDetail(url)
    THEN IF total >= max THEN Outcome("return", <<"blocked">>)
         ELSE IF ~on.hasJobContent THEN Outcome("throw", <<"blocked">>)
         ELSE IF ~on.validDefault THEN Outcome("throw", <<"blocked", "content">>)
         ELSE IF Truthy(on.job.title)
         THEN Outcome("pushData", <<"blocked", "content", "title">>)
         ELSE Outcome("return", <<"blocked", "content">>)
    ELSE IF total < max THEN Outcome("enqueueDetail", <<"blocked">>)
    ELSE Outcome("return", <<"blocked">>)

\* a DETAIL handler without the test of the counter
DetailHandlerUnlimited(on, total, max) ==
    IF on.blockedDetail THEN Outcome("throw", <<>>)
    ELSE IF ~on.hasJobContent THEN Outcome("throw", <<"blocked">>)
    ELSE IF ~on.validDetail THEN Outcome("throw", <<"blocked", "content">>)
    ELSE Outcome("pushData", <<"blocked", "content", "title">>)

\* the DETAIL handler up to its await, return or throw
DetailHandlerRun(on, total, max) ==
    IF total >= max THEN Outcome("return", <<>>)
    ELSE IF on.blockedDetail THEN Outcome("throw", <<>>)
    ELSE IF ~on.hasJobContent THEN Outcome("throw", <<"blocked">>)
    ELSE IF ~on.validDetail THEN Outcome("throw", <<"blocked", "content">>)
    ELSE IF Truthy(on.job.title) THEN Outcome("pushData", <<"blocked", "content", "title">>)
    ELSE Outcome("return", <<"blocked", "content">>)

Init ==
    /\ doc = NoDoc
    /\ now \in Nows
    /\ pc = "run"
    /\ locals = NoLocals
    /\ job = NoJob
    /\ oldJob = NoOldJob
    /\ \E results_wanted \in 0..MaxResults : maxResultsDesired = ResultsLimit(results_wanted)
    /\ totalJobsSaved = 0
    /\ maxConcurrency \in 1..MaxConcurrency
    /\ maxRequestRetries \in 0..MaxRetries
    /\ queue = {Request(u, "", 0) : u \in StartUrls}
    /\ seen = StartUrls
    /\ running = {}
    /\ dataset = <<>>
    /\ failed = {}
    /\ OldIdle
    /\ call = NoCall

\* the handler threw: the crawler retries the request or gives it up
Thrown(req, rest) ==
    IF req.retry < maxRequestRetries
    THEN /\ queue' = rest \cup {Request(req.url, req.label, req.retry + 1)}
         /\ failed' = failed
    ELSE /\ queue' = rest
         /\ failed' = failed \cup {req.url}

\* what a started handler leaves behind
Started(req, page, out) ==
    /\ IF out.kind = "throw" THEN Thrown(req, queue \ {req})
       ELSE queue' = queue \ {req} /\ failed' = failed
    /\ running' = IF out.kind \in {"pushData", "enqueueDetail"}
                  THEN running \cup {[req |-> req, page |-> page, at |-> out.kind,
                                      passed |-> out.passed]}
                  ELSE running

\* the crawler fetches a request without label and the default handler runs
\* up to its first await
DefaultHandler(req, page, site) ==
    /\ pc = "run"
    /\ req \in queue /\ req.label = ""
    /\ page \in Serve[req.url]
    /\ Cardinality(running) < maxConcurrency
    /\ Started(req, page,
               DefaultHandlerRun(req.url, site[page, now], totalJobsSaved,
                                 maxResultsDesired))
    /\ UNCHANGED <<maxResultsDesired, totalJobsSaved, maxConcurrency, maxRequestRetries, seen,
                   dataset>>
    /\ UNCHANGED extractVars
    /\ UNCHANGED oldVars
    /\ UNCHANGED callVars

\* the crawler fetches a DETAIL request and its handler runs up to its await
DetailHandler(req, page, site) ==
    /\ pc = "run"
    /\ req \in queue /\ req.label = "DETAIL"
    /\ page \in Serve[req.url]
    /\ Cardinality(running) < maxConcurrency
    /\ Started(req, page,
               DetailHandlerRun(site[page, now], totalJobsSaved, maxResultsDesired))
    /\ UNCHANGED <<maxResultsDesired, totalJobsSaved, maxConcurrency, maxRequestRetries, seen,
                   dataset>>
    /\ UNCHANGED extractVars
    /\ UNCHANGED oldVars
    /\ UNCHANGED callVars

\* Dataset.pushData stores the record
PushDataStored(r, site) ==
    /\ r \in running /\ r.at = "pushData"
    /\ dataset' = Append(dataset, [url |-> r.req.url, label |-> r.req.label, page |-> r.page,
                                   passed |-> r.passed, job |-> site[r.page, now].job])
    /\ running' = (running \ {r}) \cup {[r EXCEPT !.at = "pushed"]}
    /\ UNCHANGED <<maxResultsDesired, totalJobsSaved, maxConcurrency, maxRequestRetries, queue,
                   seen, failed>>
    /\ UNCHANGED extractVars
    /\ UNCHANGED oldVars
    /\ UNCHANGED callVars

\* Dataset.pushData rejects and the handler throws
PushDataFailed(r) ==
    /\ r \in running /\ r.at = "pushData"
    /\ Thrown(r.req, queue)
    /\ running' = running \ {r}
    /\ UNCHANGED <<maxResultsDesired, totalJobsSaved, maxConcurrency, maxRequestRetries, seen,
                   dataset>>
    /\ UNCHANGED extractVars
    /\ UNCHANGED oldVars
    /\ UNCHANGED callVars

\* a handler that counts the record it stored twice
PushDataCountedTwice(r) ==
    /\ r \in running /\ r.at = "pushed"
    /\ totalJobsSaved' = totalJobsSaved + 2
    /\ running' = running \ {r}
    /\ UNCHANGED <<maxResultsDesired, maxConcurrency, maxRequestRetries, queue, seen, dataset,
                   failed>>
    /\ UNCHANGED extractVars
    /\ UNCHANGED oldVars
    /\ UNCHANGED callVars

\* the handler resumes after await Dataset.pushData(job): totalJobsSaved++
PushDataResumed(r) ==
    /\ r \in running /\ r.at = "pushed"
    /\ totalJobsSaved' = totalJobsSaved + 1
    /\ running' = running \ {r}
    /\ UNCHANGED <<maxResultsDesired, maxConcurrency, maxRequestRetries, queue, seen, dataset,
                   failed>>
    /\ UNCHANGED extractVars
    /\ UNCHANGED oldVars
    /\ UNCHANGED callVars

\* the requests enqueueLinks adds: the queue takes a URL once
Enqueued(urls, label) == {Request(u, label, 0) : u \in (urls \cap DOMAIN Serve) \ seen}

\* the list handler resumes after the enqueueLinks of the detail links
EnqueueDetailResumed(r, site) ==
    /\ r \in running /\ r.at = "enqueueDetail"
    /\ queue' = queue \cup Enqueued(site[r.page, now].detailLinks, "DETAIL")
    /\ seen' = seen \cup (site[r.page, now].detailLinks \cap DOMAIN Serve)
    /\ running' = IF totalJobsSaved < maxResultsDesired
                  THEN (running \ {r}) \cup {[r EXCEPT !.at = "enqueuePagination"]}
                  ELSE running \ {r}
    /\ UNCHANGED <<maxResultsDesired, totalJobsSaved, maxConcurrency, maxRequestRetries, dataset,
                   failed>>
    /\ UNCHANGED extractVars
    /\ UNCHANGED oldVars
    /\ UNCHANGED callVars

\* the list handler resumes after the enqueueLinks of the pagination links
EnqueuePaginationResumed(r, site) ==
    /\ r \in running /\ r.at = "enqueuePagination"
    /\ queue' = queue \cup Enqueued(site[r.page, now].paginationLinks, "")
    /\ seen' = seen \cup (site[r.page, now].paginationLinks \cap DOMAIN Serve)
    /\ running' = running \ {r}
    /\ UNCHANGED <<maxResultsDesired, totalJobsSaved, maxConcurrency, maxRequestRetries, dataset,
                   failed>>
    /\ UNCHANGED extractVars
    /\ UNCHANGED oldVars
    /\ UNCHANGED callVars

\* a step of the run, site being what the handlers compute from each page
Step(site) ==
    \/ \E req \in queue : \E page \in Serve[req.url] : DefaultHandler(req, page, site)
    \/ \E req \in queue : \E page \in Serve[req.url] : DetailHandler(req, page, site)
    \/ \E r \in running : PushDataStored(r, site)
    \/ \E r \in running : PushDataFailed(r)
    \/ \E r \in running : PushDataResumed(r)
    \/ \E r \in running : EnqueueDetailResumed(r, site)
    \/ \E r \in running : EnqueuePaginationResumed(r, site)

Next == Step(OnPage)

Spec == Init /\ [][Next]_vars

\* ------------------------------------------------------------------------
\* The older actor: a run
\* ------------------------------------------------------------------------

\* the largest maxPages of the input
MaxPages == 2

DefaultMaxResults == 100
DefaultMaxPages == 20
DefaultOldConcurrency == 3
OldConcurrencyCap == 10

\* Math.max(1, Number.isFinite(+raw) ? Math.floor(+raw) : dflt), raw being the
\* default when the input does not give it
OldLimit(given, raw, dflt) ==
    LET n == IF given THEN raw ELSE dflt
    IN IF n < 1 THEN 1 ELSE n

\* Math.max(1, Math.min(10, Number.isFinite(+raw) ? Math.floor(+raw) : 3))
OldConcurrency(given, raw) ==
    LET n == Least({OldConcurrencyCap, IF given THEN raw ELSE DefaultOldConcurrency})
    IN IF n < 1 THEN 1 ELSE n

\* pageNum 0 stands for a request whose userData names no pageNum
OldRequest(url, label, pageNum) == [url |-> url, label |-> label, pageNum |-> pageNum]

\* request.userData?.pageNum || 1
PageNumOf(req) == IF req.pageNum = 0 THEN 1 ELSE req.pageNum

SeqRange(xs) == {xs[i] : i \in 1..Len(xs)}

\* what the handlers of the older actor compute from each page the site
\* serves for each URL
OldOnPage ==
    [at \in {<<u, p>> : u \in DOMAIN OldServe, p \in DOMAIN OldPages} |->
        [jobLinks |-> findJobLinks(OldPages[at[2]], at[1]),
         nextUrl |-> findNextPage(OldPages[at[2]], at[1]),
         title |-> extractJobDetailOld(OldPages[at[2]]).title]]

InitOld ==
    /\ MainIdle
    /\ now \in Nows
    /\ pc = "oldRun"
    /\ call = NoCall
    /\ \E given \in BOOLEAN, raw \in 0..MaxResults :
          MAX_RESULTS = OldLimit(given, raw, DefaultMaxResults)
    /\ \E given \in BOOLEAN, raw \in 0..MaxPages :
          MAX_PAGES = OldLimit(given, raw, DefaultMaxPages)
    /\ \E given \in BOOLEAN, raw \in 0..MaxConcurrency :
          MAX_CONCURRENCY = OldConcurrency(given, raw)
    /\ collectDetails \in BOOLEAN
    /\ totalSaved = 0
    /\ urlsVisited = {}
    /\ jobUrlsEnqueued = {}
    /\ \E initialUrls \in (SUBSET OldStartUrls) \ {{}} :
          /\ oldQueue = {OldRequest(u, "LIST", 1) : u \in initialUrls}
          /\ oldSeen = initialUrls
    /\ oldRunning = {}
    /\ oldDataset = <<>>
    /\ logged = {}
    /\ handled = {}
    /\ enqueueCalls = {}

OldSuspended(req, page, at, urls) == [req |-> req, page |-> page, at |-> at, urls |-> urls]

\* the pagination of the LIST branch, up to its await or to the return
Paginate(req, page, site, others, saved, visited) ==
    LET nextUrl == site[<<req.url, page>>].nextUrl
    IN IF /\ saved < MAX_RESULTS /\ PageNumOf(req) < MAX_PAGES
          /\ nextUrl # NoUrl /\ nextUrl \notin visited
       THEN /\ oldRunning' = others \cup {OldSuspended(req, page, "enqueueNext", <<nextUrl>>)}
            /\ handled' = handled
       ELSE /\ oldRunning' = others
            /\ handled' = handled \cup {req}

\* an enqueueLinks call resolved: the queue takes the URLs it has not been given yet
OldEnqueued(by, urls, label, pageNum) ==
    /\ oldQueue' = oldQueue \cup {OldRequest(u, label, pageNum) : u \in SeqRange(urls) \ oldSeen}
    /\ oldSeen' = oldSeen \cup SeqRange(urls)
    /\ enqueueCalls' = enqueueCalls \cup {[by |-> by, urls |-> urls, label |-> label]}

\* the crawler fetches a LIST request and the handler runs up to its first await
OldListHandler(req, page, site) ==
    /\ pc = "oldRun"
    /\ req \in oldQueue /\ req.label = "LIST"
    /\ page \in OldServe[req.url]
    /\ Cardinality(oldRunning) < MAX_CONCURRENCY
    /\ oldQueue' = oldQueue \ {req}
    /\ urlsVisited' = urlsVisited \cup {req.url}
    /\ LET jobLinks == site[<<req.url, page>>].jobLinks
           cut == Slice0(jobLinks, MAX_RESULTS - totalSaved)
           toQueue == SelectSeq(cut, LAMBDA u : u \notin jobUrlsEnqueued)
       IN IF collectDetails /\ jobLinks # <<>> /\ toQueue # <<>>
          THEN /\ oldRunning' = oldRunning \cup {OldSuspended(req, page, "enqueueDetails", toQueue)}
               /\ handled' = handled
          ELSE IF ~collectDetails /\ cut # <<>>
          THEN /\ oldRunning' = oldRunning \cup {OldSuspended(req, page, "pushData", cut)}
               /\ handled' = handled
          ELSE Paginate(req, page, site, oldRunning, totalSaved, urlsVisited')
    /\ UNCHANGED <<MAX_RESULTS, MAX_PAGES, MAX_CONCURRENCY, collectDetails, totalSaved,
                   jobUrlsEnqueued, oldSeen, oldDataset, logged, enqueueCalls>>
    /\ UNCHANGED extractVars
    /\ UNCHANGED crawlVars
    /\ UNCHANGED callVars

\* the crawler fetches a DETAIL request and the handler runs up to its await
OldDetailHandler(req, page, site) ==
    /\ pc = "oldRun"
    /\ req \in oldQueue /\ req.label = "DETAIL"
    /\ page \in OldServe[req.url]
    /\ Cardinality(oldRunning) < MAX_CONCURRENCY
    /\ oldQueue' = oldQueue \ {req}
    /\ urlsVisited' = urlsVisited \cup {req.url}
    /\ IF totalSaved < MAX_RESULTS /\ Truthy(site[<<req.url, page>>].title)
       THEN /\ oldRunning' = oldRunning \cup {OldSuspended(req, page, "pushData", <<req.url>>)}
            /\ handled' = handled
       ELSE /\ oldRunning' = oldRunning
            /\ handled' = handled \cup {req}
    /\ UNCHANGED <<MAX_RESULTS, MAX_PAGES, MAX_CONCURRENCY, collectDetails, totalSaved,
                   jobUrlsEnqueued, oldSeen, oldDataset, logged, enqueueCalls>>
    /\ UNCHANGED extractVars
    /\ UNCHANGED crawlVars
    /\ UNCHANGED callVars

\* enqueueLinks of the job links resolves; the handler records the links and
\* goes on to the pagination
OldEnqueueDetailsResumed(r, site) ==
    /\ pc = "oldRun"
    /\ r \in oldRunning /\ r.at = "enqueueDetails"
    /\ OldEnqueued(r.req.url, r.urls, "DETAIL", 0)
    /\ jobUrlsEnqueued' = jobUrlsEnqueued \cup SeqRange(r.urls)
    /\ Paginate(r.req, r.page, site, oldRunning \ {r}, totalSaved, urlsVisited)
    /\ UNCHANGED <<MAX_RESULTS, MAX_PAGES, MAX_CONCURRENCY, collectDetails, totalSaved,
                   urlsVisited, oldDataset, logged>>
    /\ UNCHANGED extractVars
    /\ UNCHANGED crawlVars
    /\ UNCHANGED callVars

\* enqueueLinks of the next page resolves and the handler returns
OldEnqueueNextResumed(r) ==
    /\ pc = "oldRun"
    /\ r \in oldRunning /\ r.at = "enqueueNext"
    /\ OldEnqueued(r.req.url, r.urls, "LIST", PageNumOf(r.req) + 1)
    /\ oldRunning' = oldRunning \ {r}
    /\ handled' = handled \cup {r.req}
    /\ UNCHANGED <<MAX_RESULTS, MAX_PAGES, MAX_CONCURRENCY, collectDetails, totalSaved,
                   urlsVisited, jobUrlsEnqueued, oldDataset, logged>>
    /\ UNCHANGED extractVars
    /\ UNCHANGED crawlVars
    /\ UNCHANGED callVars

\* Dataset.pushData stores the record
OldPushDataStored(r, site) ==
    /\ pc = "oldRun"
    /\ r \in oldRunning /\ r.at = "pushData"
    /\ oldDataset' = Append(oldDataset,
                            [url |-> r.urls[1],
                             title |-> IF r.req.label = "DETAIL"
                                       THEN site[<<r.req.url, r.page>>].title ELSE Null,
                             by |-> r.req])
    /\ oldRunning' = (oldRunning \ {r}) \cup {[r EXCEPT !.at = "pushed"]}
    /\ UNCHANGED <<MAX_RESULTS, MAX_PAGES, MAX_CONCURRENCY, collectDetails, totalSaved,
                   urlsVisited, jobUrlsEnqueued, oldQueue, oldSeen, logged, handled,
                   enqueueCalls>>
    /\ UNCHANGED extractVars
    /\ UNCHANGED crawlVars
    /\ UNCHANGED callVars

\* Dataset.pushData rejects: the catch of the handler logs the error and the
\* handler returns
OldPushDataFailed(r) ==
    /\ pc = "oldRun"
    /\ r \in oldRunning /\ r.at = "pushData"
    /\ logged' = logged \cup {r.req}
    /\ handled' = handled \cup {r.req}
    /\ oldRunning' = oldRunning \ {r}
    /\ UNCHANGED <<MAX_RESULTS, MAX_PAGES, MAX_CONCURRENCY, collectDetails, totalSaved,
                   urlsVisited, jobUrlsEnqueued, oldQueue, oldSeen, oldDataset, enqueueCalls>>
    /\ UNCHANGED extractVars
    /\ UNCHANGED crawlVars
    /\ UNCHANGED callVars

\* the handler resumes after its pushData: it counts the record, then pushes
\* the next link of the listing, paginates, or returns
OldPushDataResumed(r, site) ==
    /\ pc = "oldRun"
    /\ r \in oldRunning /\ r.at = "pushed"
    /\ totalSaved' = totalSaved + 1
    /\ IF r.req.label = "DETAIL"
       THEN /\ oldRunning' = oldRunning \ {r}
            /\ handled' = handled \cup {r.req}
       ELSE IF Len(r.urls) > 1
       THEN /\ oldRunning' = (oldRunning \ {r})
                                \cup {OldSuspended(r.req, r.page, "pushData", Tail(r.urls))}
            /\ handled' = handled
       ELSE Paginate(r.req, r.page, site, oldRunning \ {r}, totalSaved + 1, urlsVisited)
    /\ UNCHANGED <<MAX_RESULTS, MAX_PAGES, MAX_CONCURRENCY, collectDetails, urlsVisited,
                   jobUrlsEnqueued, oldQueue, oldSeen, oldDataset, logged, enqueueCalls>>
    /\ UNCHANGED extractVars
    /\ UNCHANGED crawlVars
    /\ UNCHANGED callVars

StepOld(site) ==
    \/ \E req \in oldQueue : \E page \in OldServe[req.url] : OldListHandler(req, page, site)
    \/ \E req \in oldQueue : \E page \in OldServe[req.url] : OldDetailHandler(req, page, site)
    \/ \E r \in oldRunning : OldEnqueueDetailsResumed(r, site)
    \/ \E r \in oldRunning : OldEnqueueNextResumed(r)
    \/ \E r \in oldRunning : OldPushDataStored(r, site)
    \/ \E r \in oldRunning : OldPushDataFailed(r)
    \/ \E r \in oldRunning : OldPushDataResumed(r, site)

NextOld == StepOld(OldOnPage)

SpecOld == InitOld /\ [][NextOld]_vars

\* ------------------------------------------------------------------------
\* The helpers called on their own
\* ------------------------------------------------------------------------

\* the value objects a baseSalary can hold
ValueArgs ==
    {NoValue, NumValue(0), NumValue(12000)}
    \cup {ObjValue(mn, mx, v, u) :
             mn \in {NoNum, Num(10000)}, mx \in {NoNum, Num(15000)},
             v \in {NoNum, Num(12000)}, u \in {Null, Chars("MONTH")}}

\* the compensation objects normalizeSalaryFromJsonLd is called with
SalaryArgs ==
    {NoSalary, NumSalary(0), NumSalary(12000), StrSalary}
    \cup {ObjSalary(t, c, u, mn, mx, v) :
             t \in {"", "MonetaryAmount"}, c \in {Null, Chars("MXN")},
             u \in {Null, Chars("MONTH")}, mn \in {NoNum, Num(0), Num(10000)},
             mx \in {NoNum, Num(15000)}, v \in ValueArgs}

\* 'hace <n> dias' and 'hace un dia', the accented letter written as given
DaysAgo(n, iacute) ==
    IF n = 0 THEN Chars("hace un d") \o iacute \o Chars("a")
    ELSE Chars("hace ") \o (IF n >= 10 THEN Pad2(n) ELSE <<DigitChar(n)>>)
         \o Chars(" d") \o iacute \o Chars("as")

DayCounts == {0, 1, 2, 15, 30}

\* the relative expressions with the accented letter itself
DaysAgoTexts == {DaysAgo(n, <<"i'">>) : n \in DayCounts}

\* the absolute dates, each a date of the calendar, alone or with a time
AbsoluteDates ==
    {Chars("2025-10-18"), Chars("2024-02-29"), Chars("2025-10-18 10:30"),
     Chars("2025-12-31T23:59:30")}

\* texts shaped like a date that name no date of the calendar
NoDates == {Chars("2025-02-30"), Chars("2025-13-01"), Chars("2025-10-18 99:99")}

DateTexts ==
    {pre \o core \o post :
        pre \in {<<>>, Chars("Publicado "), DaysAgo(3, <<"i'">>) \o <<" ">>,
                 Chars("Tel 5512-34-56 ")},
        core \in AbsoluteDates \cup NoDates \cup DaysAgoTexts
                 \cup {DaysAgo(n, IAcute) : n \in DayCounts} \cup {<<>>, Chars("ayer")},
        post \in {<<>>, <<" ">> \o DaysAgo(3, <<"i'">>)}}

\* 'hace <n> meses', 'hace un mes' for n = 0
MonthsAgo(n) ==
    IF n = 0 THEN Chars("hace un mes")
    ELSE Chars("hace ") \o (IF n >= 10 THEN Pad2(n) ELSE <<DigitChar(n)>>)
         \o (IF n = 1 THEN Chars(" mes") ELSE Chars(" meses"))

\* 'hace <n> anos' with the accented letter given, 'hace un ano' for n = 0
YearsAgo(n, ntilde) ==
    IF n = 0 THEN Chars("hace un a") \o ntilde \o Chars("o")
    ELSE Chars("hace ") \o <<DigitChar(n)>> \o Chars(" a") \o ntilde \o Chars("os")

MonthCounts == {0, 1, 2, 13}

YearCounts == {0, 2}

\* the relative expressions in months and years
MonthYearTexts ==
    {MonthsAgo(n) : n \in MonthCounts}
    \cup {YearsAgo(n, <<"n~">>) : n \in YearCounts}
    \cup {Chars("Publicado ") \o MonthsAgo(1)}

\* the instants of interpretation
Clocks == {Instant(2024, 3, 31, 10, 5), Instant(2025, 1, 1, 0, 30)}

DateArgs == {[s |-> t, clock |-> c] : t \in DateTexts \cup MonthYearTexts, c \in Clocks}

\* the texts a sanitized fragment can hold: prose, a style rule, braces that
\* enclose nothing
FragmentTexts == {Chars("Se busca vendedor"), Chars(".a{color:red}"), Chars("a } b { c")}

\* sanitized fragments: a text bare, inside one allowed element, or before a <br>
SanitizedFragments ==
    FragmentTexts
    \cup {<<"<" \o tag \o ">">> \o t \o <<CloseToken(tag)>> :
             tag \in allowedTags \ {"br"}, t \in FragmentTexts}
    \cup {t \o <<"<br>">> : t \in FragmentTexts}

\* the description pairs that reach the guard
GuardArgs == {Desc(f, cleanHtmlToText(f)) : f \in SanitizedFragments}

\* the fragments stripAttrsKeepTags is called with
StripArgs ==
    {<<>>, LongText, <<"<p>">> \o LongText \o <<"</p>">>,
     <<"<p class=\"intro\">">> \o LongText \o <<"</p>">>,
     <<"<div>", "<p>">> \o LongText \o <<"</p>", "<style>">> \o Chars("p{color:red}")
        \o <<"</style>", "</div>">>,
     <<"<div>">> \o Chars("  Se  busca ") \o <<"<b>">> \o Chars("vendedor") \o <<"</b>", "<br>", "</div>">>,
     <<"<div>", "<span>">> \o Chars("Se busca") \o <<"</span>", "</div>">>}

\* the raw texts cleanCompanyName is called with: plain names, names with a
\* rating, a separator, a line break or a stop marker, a name that begins
\* with a marker and repeats it, blank text and a text beyond the limit
CompanyArgs ==
    { Chars("Acme SA 4.5"), Chars("Beta | Seguir"), Chars("Acme S.A. Seguir"),
      Chars("Acme") \o <<"\n">> \o Chars("Puebla"),
      Chars("Acme ") \o <<"middot">> \o Chars(" Puebla"),
      Chars("Acme Pol") \o <<"i'">> \o Chars("tica de privacidad"),
      Chars("Seguir"), Chars("Seguir Seguir SA"), Chars("  "), <<>>,
      LongText \o <<" ">> \o LongText }

InitCalls ==
    /\ MainIdle
    /\ OldIdle
    /\ now \in Nows
    /\ pc = "call"
    /\ \/ \E a \in SalaryArgs : call = [fn |-> "normalizeSalaryFromJsonLd", arg |-> a, ret |-> <<>>]
       \/ \E a \in DateArgs :
             call = [fn |-> "parseSpanishRelativeDateToISO", arg |-> a, ret |-> <<>>]
       \/ \E a \in GuardArgs : call = [fn |-> "CssGuard", arg |-> a, ret |-> <<>>]
       \/ \E a \in StripArgs : call = [fn |-> "stripAttrsKeepTags", arg |-> a, ret |-> <<>>]
       \/ \E a \in CompanyArgs : call = [fn |-> "cleanCompanyName", arg |-> a, ret |-> <<>>]

Returned(label, value) ==
    /\ call' = [call EXCEPT !.ret = (label :> value) @@ call.ret]
    /\ UNCHANGED extractVars
    /\ UNCHANGED crawlVars
    /\ UNCHANGED oldVars

NormalizeSalary ==
    /\ pc = "call" /\ call.fn = "normalizeSalaryFromJsonLd"
    /\ "value" \notin DOMAIN call.ret
    /\ Returned("value", normalizeSalaryFromJsonLd(call.arg))

\* the later copy of the interpreter is called
ParseDate ==
    /\ pc = "call" /\ call.fn = "parseSpanishRelativeDateToISO"
    /\ "later" \notin DOMAIN call.ret
    /\ Returned("later", parseSpanishRelativeDateToISO(call.arg.s, call.arg.clock))

\* the earlier copy of the interpreter is called
ParseDateEarlier ==
    /\ pc = "call" /\ call.fn = "parseSpanishRelativeDateToISO"
    /\ "earlier" \notin DOMAIN call.ret
    /\ Returned("earlier", parseSpanishRelativeDateToISOEarlier(call.arg.s, call.arg.clock))

\* the guard of extractJobDetail against a capture of style rules
GuardDescription ==
    /\ pc = "call" /\ call.fn = "CssGuard"
    /\ "value" \notin DOMAIN call.ret
    /\ Returned("value", CssGuard(call.arg))

StripAttrs ==
    /\ pc = "call" /\ call.fn = "stripAttrsKeepTags"
    /\ "once" \notin DOMAIN call.ret
    /\ Returned("once", stripAttrsKeepTags(call.arg))

\* stripAttrsKeepTags is called on what it returned
StripAttrsAgain ==
    /\ pc = "call" /\ call.fn = "stripAttrsKeepTags"
    /\ "once" \in DOMAIN call.ret /\ "twice" \notin DOMAIN call.ret
    /\ Returned("twice", stripAttrsKeepTags(call.ret["once"]))

\* cleanCompanyName is called on a raw text
CleanCompany ==
    /\ pc = "call" /\ call.fn = "cleanCompanyName"
    /\ "value" \notin DOMAIN call.ret
    /\ Returned("value", cleanCompanyName(call.arg))

NextCalls ==
    \/ CleanCompany
    \/ NormalizeSalary
    \/ ParseDate
    \/ ParseDateEarlier
    \/ GuardDescription
    \/ StripAttrs
    \/ StripAttrsAgain

SpecCalls == InitCalls /\ [][NextCalls]_vars

\* ------------------------------------------------------------------------
\* Properties of a run
\* ------------------------------------------------------------------------

\* C1 as stated: the records pushed to the dataset in a run never outnumber
\* the results limit, however the handlers interleave
C1_WithinLimit ==
    pc = "run" => Len(dataset) <= maxResultsDesired

\* the pushes made so far: stored, or issued by a handler that awaits them
Pushes ==
    {[label |-> dataset[i].label, page |-> dataset[i].page, passed |-> dataset[i].passed] :
        i \in 1..Len(dataset)}
    \cup {[label |-> r.req.label, page |-> r.page, passed |-> r.passed] :
             r \in {x \in running : x.at \in {"pushData", "pushed"}}}

\* the pages with an interstitial signal: sign-in or create-account wording in
\* the title or the body, or a password input
ShowsInterstitial == [p \in DOMAIN Pages |-> BlockSignals(Pages[p])]

\* the pages with a heading, a title-bearing element or a script block
ShowsJobContent == [p \in DOMAIN Pages |-> hasJobContent(Pages[p])]

\* the title extracted from each page
TitleOf == [p \in DOMAIN Pages, n \in Nows |-> extractJobDetail(Pages[p], n).title]

StructKeys == {"salary_currency", "salary_period", "salary_min", "salary_max", "salary_amount"}

HasStructuredSalary(j) == j.has \cap StructKeys # {}

HasSalaryText(j) == "salary_text" \in j.has

\* the page shows a labelled salary text
LabelledSalary(body) == Truthy(extractLabeledValue(body, SalaryLabels))

\* C3: the record never carries salary_text together with a structured
\* salary field, and the labelled salary text is read only when the
\* normalizer of the structured data produced nothing
C3_SalaryExclusive ==
    pc = "main" =>
        /\ ~(HasSalaryText(job) /\ HasStructuredSalary(job))
        /\ job.salary_text # Null => ~HasStructuredSalary(job)
        /\ locals.salary_text # Null => locals.salary_struct.isNull

\* a page with a labelled salary whose structured data has a salary too
C3_Witness ==
    /\ pc = "main"
    /\ ~locals.salary_struct.isNull
    /\ LabelledSalary(doc.body)
    /\ HasStructuredSalary(job)
    /\ job.salary_text = Null

\* C4 as stated: exactly one of the two salary representations is populated
\* in every record
C4_ExactlyOneSalary ==
    pc = "main" => (HasStructuredSalary(job) # HasSalaryText(job))

\* C4: at most one salary representation is populated: the structured fields
\* exactly when the normalizer produced some, salary_text exactly when it
\* produced none and the page shows a labelled salary, and neither otherwise
C4_AtMostOneSalary ==
    pc = "main" =>
        LET normalized == ~locals.jsonLd.salary_struct.isNull IN
        /\ ~(HasStructuredSalary(job) /\ HasSalaryText(job))
        /\ HasStructuredSalary(job) <=> normalized
        /\ HasSalaryText(job) <=> (~normalized /\ LabelledSalary(doc.body))

\* a posting with no salary in the structured data and none on the page
C4_Witness ==
    /\ pc = "main"
    /\ Truthy(job.title)
    /\ locals.jsonLd.found
    /\ locals.jsonLd.salary_struct.isNull
    /\ ~LabelledSalary(doc.body)
    /\ job.has = {}

C6_TextIsRendering ==
    /\ (pc = "main" /\ job.description_html # Null)
          => job.description_text = cleanHtmlToText(job.description_html)
    /\ (pc = "old" /\ oldJob.description_html # Null)
          => oldJob.description_text = cleanHtmlToTextOld(oldJob.description_html)

\* an ISO-8601 date, alone or followed by a time
IsIso8601(s) ==
    /\ Len(s) >= 10
    /\ \A i \in {1, 2, 3, 4, 6, 7, 9, 10} : IsDigit(s[i])
    /\ s[5] = "-" /\ s[8] = "-"
    /\ Len(s) > 10 => s[11] = "T"

\* C7 as stated: datePosted of a record is null or an ISO-8601 timestamp
C7_DateIsoOrNull ==
    pc = "main" => (job.datePosted = Null \/ IsIso8601(job.datePosted))

\* the value a field has when its sources are consulted in priority order
InPriorityOrder(structured, cands, v) ==
    IF Truthy(structured) THEN v = structured
    ELSE /\ (\A k \in 1..Len(cands) : ~cands[k].ok) => v = Null
         /\ \A k \in 1..Len(cands) :
               (cands[k].ok /\ \A j \in 1..(k - 1) : ~cands[j].ok) => v = OrNull(cands[k].v)

\* C8: title, company and location are the structured-data value when it is
\* non-empty after cleanup, else the value of the first accepted DOM probe;
\* the posting 'Asesor de Ventas' of 'Empresa XYZ' in 'Ciudad de Mexico'
\* yields those three values
C8_PriorityOrder ==
    pc = "main" =>
        LET ld == locals.jsonLd IN
        /\ InPriorityOrder((IF Truthy(ld.title) THEN normText(ld.title) ELSE Null),
                           titleCands(doc.body), job.title)
        /\ InPriorityOrder((IF Truthy(ld.company) THEN cleanCompanyName(ld.company) ELSE Null),
                           companyCands(doc.body), job.company)
        /\ InPriorityOrder((IF Truthy(ld.location) THEN normText(ld.location) ELSE Null),
                           locationCands(doc.body), job.location)
        /\ doc.ld = <<JsonBlock(<<JobFull>>)>> =>
              /\ job.title = Chars("Asesor de Ventas")
              /\ job.company = Chars("Empresa XYZ")
              /\ job.location = Mexico

\* the posting of the example on a page whose markup names another title,
\* company and location
C8_Witness ==
    /\ pc = "main"
    /\ doc.ld = <<JsonBlock(<<JobFull>>)>>
    /\ doc.body = BodyFull
    /\ titleCands(doc.body)[1].ok
    /\ job.title = Chars("Asesor de Ventas")
    /\ job.company = Chars("Empresa XYZ")
    /\ job.location = Mexico

\* the items of the blocks that parse, in document order
RECURSIVE ItemsInOrder(_)
ItemsInOrder(blocks) ==
    IF blocks = <<>> THEN <<>>
    ELSE (IF Head(blocks).kind = "json" THEN Head(blocks).items ELSE <<>>)
         \o ItemsInOrder(Tail(blocks))

\* the type an item declares under @type
DeclaresAtType(item, t) ==
    ~item.isNull /\ \E i \in 1..Len(item.atType.v) : item.atType.v[i] = t

\* the type an item declares under @type or, when it has no @type, under type
DeclaresType(item, t) ==
    /\ ~item.isNull
    /\ \/ DeclaresAtType(item, t)
       \/ /\ item.atType.v = <<>>
          /\ \E i \in 1..Len(item.type.v) : item.type.v[i] = t

\* the JobPosting items of the blocks that parse, in document order
PostingsInOrder(blocks) ==
    SelectSeq(ItemsInOrder(blocks), LAMBDA item : DeclaresType(item, "JobPosting"))

SomeMalformed(blocks) == \E i \in 1..Len(blocks) : blocks[i].kind = "malformed"

\* C9 as stated: in a document with several script blocks of which one does
\* not parse, the reader returns the first JobPosting item, in document
\* order, of the blocks that parse (main.js and the older actor)
C9_FirstPostingFound ==
    (Len(doc.ld) > 1 /\ SomeMalformed(doc.ld) /\ PostingsInOrder(doc.ld) # <<>>) =>
        LET first == PostingsInOrder(doc.ld)[1] IN
        /\ pc = "main" => locals.jsonLd = extractFromJsonLd(<<JsonBlock(<<first>>)>>)
        /\ pc = "old" => oldJob.title = FirstTruthy(first.title, first.name)

\* the record of the same page without its script blocks
DomOnly == extractJobDetail(Doc(doc.title, <<>>, doc.body), now)

\* C10 as stated: with no block holding an item whose @type is or includes
\* JobPosting, the reader yields nothing and the record is the one the DOM
\* probes alone give
C10_NoAtTypeNoStructured ==
    (pc = "main" /\ ~\E i \in 1..Len(ItemsInOrder(doc.ld)) :
                        DeclaresAtType(ItemsInOrder(doc.ld)[i], "JobPosting")) =>
        /\ ~locals.jsonLd.found
        /\ job = DomOnly

\* C10: with no block holding an item whose @type (or, for an item without
\* @type, whose type) is or includes JobPosting, the reader yields nothing and
\* the record is the one the DOM probes alone give
C10_NoTypeNoStructured ==
    (pc = "main" /\ PostingsInOrder(doc.ld) = <<>>) =>
        /\ ~locals.jsonLd.found
        /\ job = DomOnly

\* a page with template markup whose only script block holds an item of
\* another type
C10_Witness ==
    /\ pc = "main"
    /\ doc.ld = <<JsonBlock(<<OrgTypedJob>>)>>
    /\ doc.body = BodyFull
    /\ ~locals.jsonLd.found
    /\ job.title = Chars("Vendedor")
    /\ job = DomOnly

\* ------------------------------------------------------------------------
\* Properties of the handlers' failures
\* ------------------------------------------------------------------------

\* what the handler of a queued request does, up to its first await, when
\* the site answers with the page
OutcomeFor(req, page) ==
    IF req.label = "DETAIL"
    THEN DetailHandlerRun(OnPage[page, now], totalJobsSaved, maxResultsDesired)
    ELSE DefaultHandlerRun(req.url, OnPage[page, now], totalJobsSaved, maxResultsDesired)

\* the handler threw at its first check, before hasJobContent and
\* extractJobDetail
ThrewAtFirstCheck(out) == out.kind = "throw" /\ out.passed = <<>>

\* no push is for an interstitial page and the counter counts stored records
\* only
NothingSavedForInterstitial ==
    /\ \A e \in Pushes : ~ShowsInterstitial[e.page]
    /\ totalJobsSaved <= Len(dataset)

C12_ErrorsPropagate ==
    pc = "oldRun" => \A req \in logged : req \notin handled

\* Properties of the helpers

SalaryCalled == pc = "call" /\ call.fn = "normalizeSalaryFromJsonLd" /\ "value" \in DOMAIN call.ret

\* the minValue a compensation object gives, on its value object or on itself
GivenMin(a) ==
    IF a.k # "obj" THEN NoNum
    ELSE IF a.value.k = "obj" /\ a.value.minValue # NoNum THEN a.value.minValue
    ELSE a.minValue

\* the maxValue a compensation object gives, on its value object or on itself
GivenMax(a) ==
    IF a.k # "obj" THEN NoNum
    ELSE IF a.value.k = "obj" /\ a.value.maxValue # NoNum THEN a.value.maxValue
    ELSE a.maxValue

\* C13: normalizeSalaryFromJsonLd never returns a range field together with
\* salary_amount; when the compensation object gives a minValue or a maxValue
\* the result has salary_min / salary_max and no salary_amount; the object
\* with only minValue 10000, maxValue 15000 and unitText MONTH gives exactly
\* {salary_min, salary_max, salary_period}, the object with only value 12000
\* gives exactly {salary_amount: 12000}; the result is null, never an empty
\* object, when nothing resolves.
C13_RangeBeforeAmount ==
    SalaryCalled =>
        LET a == call.arg
            r == call.ret["value"]
        IN /\ ~("salary_amount" \in r.has /\ r.has \cap {"salary_min", "salary_max"} # {})
           /\ GivenMin(a) # NoNum =>
                 "salary_min" \in r.has /\ r.salary_min = GivenMin(a)
                 /\ "salary_amount" \notin r.has
           /\ GivenMax(a) # NoNum =>
                 "salary_max" \in r.has /\ r.salary_max = GivenMax(a)
                 /\ "salary_amount" \notin r.has
           /\ a = ObjSalary("", Null, Chars("MONTH"), Num(10000), Num(15000), NoValue) =>
                 /\ r.has = {"salary_min", "salary_max", "salary_period"}
                 /\ r.salary_min = Num(10000) /\ r.salary_max = Num(15000)
                 /\ r.salary_period = Chars("MONTH")
           /\ a = ObjSalary("", Null, Null, NoNum, NoNum, NumValue(12000)) =>
                 r.has = {"salary_amount"} /\ r.salary_amount = Num(12000)
           /\ r.isNull <=> r.has = {}

DateCalled == pc = "call" /\ call.fn = "parseSpanishRelativeDateToISO"

\* the dates of the calendar the texts name
ValidDates == {SubSeq(t, 1, 10) : t \in AbsoluteDates}

\* C14: for every text that contains a valid absolute date YYYY-MM-DD, with
\* or without a time after it, parseSpanishRelativeDateToISO returns a
\* timestamp on exactly that date, whatever else the text holds (a relative
\* phrase included).
C14_AbsoluteDateWins ==
    DateCalled =>
        \A copy \in DOMAIN call.ret : \A date \in ValidDates :
            Includes(call.arg.s, date) =>
                /\ call.ret[copy] # Null
                /\ SubSeq(call.ret[copy], 1, 10) = date

\* the timestamp a number of days before an instant
DaysBefore(clock, days) == toISOString(FromMinutes(ToMinutes(clock) - days * 1440))

\* C15: for the text 'hace <n> dias' (n = 1, 2, 15, 30) or 'hace un dia',
\* alone or after 'Publicado', with no absolute date in it, each copy of
\* parseSpanishRelativeDateToISO in main.js returns the timestamp exactly n
\* days before the instant of interpretation.
C15_DaysAgoInBothCopies ==
    DateCalled =>
        \A n \in DayCounts : \A pre \in {<<>>, Chars("Publicado ")} :
            call.arg.s = pre \o DaysAgo(n, <<"i'">>) =>
                \A copy \in DOMAIN call.ret :
                    call.ret[copy] = DaysBefore(call.arg.clock, IF n = 0 THEN 1 ELSE n)

\* a string with something other than whitespace in it
NonBlank(v) == v # Null /\ \E i \in 1..Len(v) : ~IsSpace(v[i])

\* C16: in every record extractJobDetail returns, each of title, company,
\* location, datePosted, description_html, description_text and
\* employmentType is null or a value that is not empty and not whitespace
\* only.
C16_NullOrNonEmpty ==
    pc = "main" =>
        \A v \in {job.title, job.company, job.location, job.datePosted,
                  job.description_html, job.description_text, job.employmentType} :
            v = Null \/ NonBlank(v)

\* the fragment holds an element of one of the allowed content tags
HasAllowedTag(html) ==
    \E i \in 1..Len(html) : IsOpen(html[i]) /\ OpenTags[html[i]].tag \in allowedTags

\* the fragment holds a brace-delimited block
HasBraceBlock(html) ==
    \E i \in 1..Len(html) : \E k \in (i + 1)..Len(html) : html[i] = "{" /\ html[k] = "}"

C18_StripIdempotent ==
    (pc = "call" /\ call.fn = "stripAttrsKeepTags" /\ "twice" \in DOMAIN call.ret) =>
        call.ret["twice"] = call.ret["once"]

C18_Witness ==
    /\ pc = "call" /\ call.fn = "stripAttrsKeepTags"
    /\ Includes(call.arg, <<"<style>">>)
    /\ "twice" \in DOMAIN call.ret

\* records pushed from the same document are the same record
SameDocSameRecord ==
    pc = "run" =>
        \A i, k \in 1..Len(dataset) :
            dataset[i].page = dataset[k].page => dataset[i].job = dataset[k].job

\* a handler starts, and with it whatever extraction it runs
HandlerStarts == pc = "run" /\ queue' # queue /\ Cardinality(queue') < Cardinality(queue)

ListPagesProcessed ==
    {req \in handled \cup {r.req : r \in oldRunning} : req.label = "LIST"}

\* C20: in a run of the older actor the number of listing pages processed
\* never exceeds maxPages.
C20_AtMostMaxPages ==
    pc = "oldRun" => Cardinality(ListPagesProcessed) <= MAX_PAGES

\* ---- Properties of the older actor's queueing ----

DetailCalls == {c \in enqueueCalls : c.label = "DETAIL"}

\* C21: in a run of the older actor no job detail URL is handed to
\* enqueueLinks by more than one call, also when two listing pages that
\* carry the same job link are handled at the same time
C21_NoDuplicateEnqueue ==
    \A c1, c2 \in DetailCalls :
        c1 # c2 => SeqRange(c1.urls) \cap SeqRange(c2.urls) = {}

\* C21 where it holds: handlers that run one at a time
C21_NoDuplicateWhenSerial ==
    MAX_CONCURRENCY = 1 => C21_NoDuplicateEnqueue

\* ---- Properties of the records of a run ----

\* the interstitial wording, as a page shows it
KnownPhrases ==
    { Chars("sign in"), Chars("job openings in"), Chars("crear cuenta"),
      Chars("iniciar sesi") \o <<"o'">> \o Chars("n") }

HasPhrase(s) == s # Null /\ \E p \in KnownPhrases : Includes(toLowerCase(s), p)

\* C22: no record in the dataset has a title of 200 characters or more, or a
\* title or description with sign-in, job-openings, create-account or
\* log-in wording, whichever handler pushed it
C22_NoInterstitialRecord ==
    pc = "run" =>
        \A i \in 1..Len(dataset) :
            /\ dataset[i].job.title # Null => Len(dataset[i].job.title) < MaxTitleLen
            /\ ~HasPhrase(dataset[i].job.title)
            /\ ~HasPhrase(dataset[i].job.description_text)
            /\ ~HasPhrase(dataset[i].job.description_html)

\* the same for the wording both handlers test the title for
C22_PhrasesBothHandlersTest ==
    pc = "run" =>
        \A i \in 1..Len(dataset) :
            \A p \in {Chars("sign in"), Chars("job openings in"), Chars("crear cuenta")} :
                ~Includes(toLowerCase(dataset[i].job.title), p)

\* the pages whose only interstitial signal is a form with a login action
LoginFormOnly ==
    [p \in DOMAIN Pages |-> isBlockedOrRedirectDefault(Pages[p]) /\ ~BlockSignals(Pages[p])]

\* C23: a page whose only signal is a form with a login action yields no
\* record, whether the default handler or the DETAIL handler processes it
C23_LoginFormYieldsNoRecord ==
    pc = "run" => \A e \in Pushes : ~LoginFormOnly[e.page]

\* C23 for the default handler alone
C23_LoginFormInDefaultHandler ==
    pc = "run" => \A e \in Pushes : e.label = "" => ~LoginFormOnly[e.page]

\* the pages with no h1, no element whose class contains 'title' and no
\* structured-data script block
NoEvidence ==
    [p \in DOMAIN Pages |->
        /\ \A i \in 1..Len(Walk(Pages[p].body, <<>>)) :
              LET n == Walk(Pages[p].body, <<>>)[i].n
              IN n.tag # "h1" /\ \A c \in n.cls : ~HasSub(c, "title")
        /\ Pages[p].ld = <<>>]

\* the requests for a detail document: labelled DETAIL, or with a detail URL
\* in the default handler
ForDetail(req) == req.label = "DETAIL" \/ isDetail(req.url)

\* the handler threw before extractJobDetail was called
ThrewBeforeExtraction(out) == out.kind = "throw" /\ out.passed \in {<<>>, <<"blocked">>}

\* every push comes from a handler that passed the job-content check on a
\* page that shows job content
ExtractionAfterEvidence ==
    \A e \in Pushes : ~NoEvidence[e.page] /\ e.passed = <<"blocked", "content", "title">>

Inked(t) == SelectSeq(t, LAMBDA c : ~IsSpace(c))

\* the text of a fragment outside the elements the sanitizer removes
KeptText(html) == Inked(ForestText(RemoveNonContent(cheerioLoad(html))))

\* the text of what the sanitizer returned
TextOfOutput(out) == Inked(ForestText(ParseHtml(out)))

\* C25: the text of a fragment that is outside the removed elements is in
\* the output of stripAttrsKeepTags, in its order: an element outside the
\* allowed tags gives way to its children, the wrapper elements the parser
\* added included
C25_TextKept ==
    (pc = "call" /\ call.fn = "stripAttrsKeepTags" /\ "once" \in DOMAIN call.ret) =>
        TextOfOutput(call.ret["once"]) = KeptText(call.arg)

\* ---- Properties of the counter of a run ----

\* the crawler hands a request to its handler
RequestTaken == pc = "run" /\ \E req \in queue : req \notin queue'

\* the handler that starts in this step reaches no await: it is not among the
\* suspended handlers afterwards, so it enqueues nothing and pushes nothing
RunsToItsEnd == running' = running /\ dataset' = dataset /\ seen' = seen

\* C26: once totalJobsSaved has reached maxResultsDesired it stays there, and
\* a handler that starts from then on enqueues no detail link and no
\* pagination link and pushes no record
C26_NothingStartedAfterLimit ==
    /\ [][totalJobsSaved >= maxResultsDesired =>
             totalJobsSaved' >= maxResultsDesired']_vars
    /\ [][(RequestTaken /\ totalJobsSaved >= maxResultsDesired) => RunsToItsEnd]_vars

\* the run is over with the limit reached, and the listing was handled after
\* that: none of its links was ever given to the queue
C26_Witness ==
    /\ pc = "run"
    /\ totalJobsSaved >= maxResultsDesired
    /\ queue = {} /\ running = {} /\ failed = {}
    /\ "/empleos" \in seen /\ "/oferta-1" \notin seen

\* the handlers suspended between the stored push and the increment
AwaitingIncrement == {r \in running : r.at = "pushed"}

\* a handler throws in this step: its request is retried or given up
HandlerThrows ==
    pc = "run" /\ (failed' # failed \/ \E req \in queue' : req \notin queue /\ req.retry > 0)

\* C27: totalJobsSaved never decreases; it changes only by one, in the step
\* in which a handler resumes after its pushData has stored a record; it is
\* the number of records stored less the handlers that have stored one and
\* not yet counted it, so the two are equal when no handler is in between;
\* and a step in which a handler throws leaves it as it is
C27_CounterCountsPushes ==
    /\ [](pc = "run" => totalJobsSaved + Cardinality(AwaitingIncrement) = Len(dataset))
    /\ [][totalJobsSaved' # totalJobsSaved =>
             /\ totalJobsSaved' = totalJobsSaved + 1
             /\ \E r \in AwaitingIncrement : running' = running \ {r}
             /\ dataset' = dataset]_vars
    /\ [][HandlerThrows => totalJobsSaved' = totalJobsSaved]_vars

\* two records were stored and counted, a third handler has thrown, and none
\* is suspended
C27_Witness ==
    /\ pc = "run"
    /\ totalJobsSaved = 2 /\ Len(dataset) = 2
    /\ running = {} /\ failed # {}

\* ---- Properties of the location of a record ----

\* the tails the cleanup of a location takes away
LocationTails ==
    {Chars("publicado"), Chars("ver mapa"), Chars("ver detalle legal"), Chars("postular")}

\* a location is clean: no tail in it, at most 120 characters, not empty
CleanedLocation(loc) ==
    /\ loc # <<>>
    /\ Len(loc) <= LocationMaxLen
    /\ \A t \in LocationTails : ~Includes(toLowerCase(loc), t)

\* C28: the location of every record extractJobDetail returns is null or a
\* non-empty text of at most 120 characters without a 'Publicado ...' suffix
\* and without a 'Ver mapa', 'Ver detalle legal' or 'Postular' tail,
\* whichever probe it came from
C28_LocationCleaned ==
    pc = "main" => (job.location = Null \/ CleanedLocation(job.location))

\* ---- Properties of cleanCompanyName ----

\* the boilerplate stop markers, as a page shows them
StopMarkers ==
    { Chars("seguir"), Chars("volver"),
      Chars("informaci") \o <<"o'">> \o Chars("n b") \o <<"a'">> \o Chars("sica"),
      Chars("pol") \o <<"i'">> \o Chars("tica de privacidad"),
      Chars("responsable"), Chars("finalidad"),
      Chars("legitimaci") \o <<"o'">> \o Chars("n"),
      Chars("destinatarios"), Chars("derechos"),
      Chars("recibe notificaciones"), Chars("formato incorrecto"),
      Chars("contrase") \o <<"n~">> \o Chars("a incorrecta"),
      Chars("acepto las condiciones"), Chars("ver detalle legal") }

\* t occurs in s at a position greater than zero
OccursAfterStart(s, t) ==
    \E i \in 2..(Len(s) - Len(t) + 1) : SubSeq(s, i, i + Len(t) - 1) = t

\* a company name as cleanCompanyName is to return it
CleanedCompany(v) ==
    /\ v # <<>>
    /\ Len(v) <= CompanyMaxLen
    /\ \A i \in 1..Len(v) : v[i] \notin {"\n", "|", "middot"}
    /\ \A t \in StopMarkers : ~OccursAfterStart(toLowerCase(v), t)

\* C29: cleanCompanyName returns null or a non-empty text of at most 80
\* characters with no line break, pipe or middle dot in it and no stop
\* marker after its first character
C29_CompanyCleaned ==
    (pc = "call" /\ call.fn = "cleanCompanyName" /\ "value" \in DOMAIN call.ret) =>
        (call.ret["value"] = Null \/ CleanedCompany(call.ret["value"]))

\* C29 without the accented markers, the middle dot and the repeated marker:
\* the length, the line break, the pipe and the markers written in ASCII
C29_CompanyCleanedInAscii ==
    (pc = "call" /\ call.fn = "cleanCompanyName" /\ "value" \in DOMAIN call.ret
       /\ call.arg \notin {Chars("Acme ") \o <<"middot">> \o Chars(" Puebla"),
                           Chars("Acme Pol") \o <<"i'">> \o Chars("tica de privacidad"),
                           Chars("Seguir Seguir SA")}) =>
        (call.ret["value"] = Null \/ CleanedCompany(call.ret["value"]))

\* ---- Properties of the relative dates in months and years ----

\* the number of days of a month
MonthLength(y, mo) ==
    DaysFromCivil(IF mo = 12 THEN y + 1 ELSE y, IF mo = 12 THEN 1 ELSE mo + 1, 1)
    - DaysFromCivil(y, mo, 1)

\* the instant a number of calendar months before another: the same time of
\* day on the same day of the month, or on the last day of a shorter month
MonthsBefore(clock, months) ==
    LET m0 == clock.y * 12 + (clock.mo - 1) - months
        y == m0 \div 12
        mo == (m0 % 12) + 1
        d == IF clock.d > MonthLength(y, mo) THEN MonthLength(y, mo) ELSE clock.d
    IN toISOString(Instant(y, mo, d, clock.h, clock.mi))

\* C30: for 'hace <n> meses' (or 'hace un mes') and 'hace <n> anos' (or 'hace
\* un ano'), alone or after 'Publicado', parseSpanishRelativeDateToISO
\* returns the instant n months or years before now with the day adjusted to
\* the length of the target month, a timestamp in the calendar month exactly
\* n months before the current one
C30_MonthsBeforeNow ==
    DateCalled =>
        \A copy \in DOMAIN call.ret :
            /\ \A n \in MonthCounts : \A pre \in {<<>>, Chars("Publicado ")} :
                  call.arg.s = pre \o MonthsAgo(n) =>
                      call.ret[copy] = MonthsBefore(call.arg.clock, IF n = 0 THEN 1 ELSE n)
            /\ \A n \in YearCounts :
                  call.arg.s = YearsAgo(n, <<"n~">>) =>
                      call.ret[copy] =
                          MonthsBefore(call.arg.clock, 12 * (IF n = 0 THEN 1 ELSE n))

\* C30 where the day of the month exists in the target month: the copy of
\* the function that holds the accented letters as such
C30_MonthsBeforeFirstOfMonth ==
    (DateCalled /\ call.arg.clock.d = 1 /\ "earlier" \in DOMAIN call.ret) =>
        /\ \A n \in MonthCounts :
              call.arg.s = MonthsAgo(n) =>
                  call.ret["earlier"] = MonthsBefore(call.arg.clock, IF n = 0 THEN 1 ELSE n)
        /\ \A n \in YearCounts :
              call.arg.s = YearsAgo(n, <<"n~">>) =>
                  call.ret["earlier"] =
                      MonthsBefore(call.arg.clock, 12 * (IF n = 0 THEN 1 ELSE n))

====
